---- MODULE Spec2Model ----
(***************************************************************************)
(* Verification model of the multi-agent orchestration layer of the        *)
(* product recommendation agent.                                           *)
(*                                                                         *)
(* Spec       : OrchestratorAgent.orchestrate_recommendation, one request  *)
(*              on the asyncio event loop (fan-out of the four analysis    *)
(*              tasks, per-task timeouts, the 120 s ceiling, enrichment    *)
(*              and response formatting).                                  *)
(* SpecReview : ReviewAnalyzerAgent.analyze_reviews over the shared        *)
(*              review cache (SimpleCache, TTL 600 s).                     *)
(*                                                                         *)
(* SpecCache  : SimpleCache.get / set / remove / clear called from several *)
(*              threads on the review_cache instance, one step per         *)
(*              statement inside the lock.                                 *)
(*                                                                         *)
(* SpecRepeat : two consecutive orchestrate_recommendation calls for the   *)
(*              same query over warm caches and an unchanged catalog.      *)
(*                                                                         *)
(* SpecCompare: ComparisonAgent.compare_products over the comparison       *)
(*              cache (TTL 300 s) and a fixed catalog.                     *)
(*                                                                         *)
(* SpecSearch : ProductSearchAgent.search_products, from the intent        *)
(*              parsing to the fused ranking.                              *)
(* SpecPrice  : the price analysis of one product, from                    *)
(*              calculate_price_trend to the price_tracking block.         *)
(* SpecDiscount : the discount of a product, from the catalog row to the   *)
(*              pricing block of the response.                             *)
(* SpecBuyPlan : compare_payment_options and create_purchase_plan for one  *)
(*              product: EMI schedules, payment options, best options.     *)
(* SpecTrust  : the trust score of a review analysis result.               *)
(* SpecParse  : sentiment, pros and cons of a review analysis result, from *)
(*              the LLM text or from the themes.                           *)
(* SpecAlias  : the comparison cache holding references to the result      *)
(*              dicts that the requests receive.                           *)
(* SpecBudget : one agent task between the agent's LLM timeout and the     *)
(*              orchestrator's timeout on the task.                        *)
(* SpecWorker : the executor and worker thread behind each LLM call of the *)
(*              review, price and comparison agents.                       *)
(*                                                                         *)
(* Python semantics assumed: CPython >= 3.8, where asyncio.CancelledError  *)
(* derives from BaseException (not Exception) and Task.done() is True for  *)
(* a cancelled task.                                                       *)
(***************************************************************************)
EXTENDS Integers, Sequences, FiniteSets, TLC

\* ------------------------------------------------------------------ bounds
\* Size of the catalog seen by the ranker, and longest ranked list.
MaxProducts == 2
\* A point in time after the global ceiling (seconds).
Horizon == 125
\* Most reviews a product has.
MaxReviews == 2
\* Most steps of the wall clock in one behaviour of the review analyzer.
MaxAdvances == 3
\* Threads calling into one SimpleCache.
MaxThreads == 2
\* Keys the threads use.
MaxKeys == 1
\* Most steps of the wall clock in one behaviour of the cache.
MaxClockSteps == 2
\* Most LLM calls made through an executor in one behaviour.
MaxCalls == 3
\* Most comparison requests in one behaviour of the comparison cache.
MaxRequests == 3
\* Longest time the intent LLM call is followed (seconds).
MaxIntentWait == 3
\* Most whole weeks of rows in a price history.
MaxWeeks == 2
\* Prices and MRPs of the catalog, in steps of 250 rupees.
MaxPriceSteps == 8
\* Most card offers of a product.
MaxOffers == 2
\* Most lines of an LLM review analysis; most themes of one polarity.
MaxLines == 4
MaxThemes == 3

\* ------------------------------------------------------- program constants
ReviewTimeout == 60
PriceTimeout == 30
CompareTimeout == 100
BuyPlanTimeout == 8
GlobalTimeout == 120
MaxCompare == 5
ReviewTTL == 600
ReviewLLMTimeout == 90
PriceLLMTimeout == 25
CompareLLMTimeout == 50
CompareTTL == 300
\* Weights of the two legs of the hybrid search, in thousandths.
SemanticWeight == 700
TraditionalWeight == 300
\* calculate_price_trend: rows needed for a trend, rows of one window.
TrendPoints == 14
TrendWindow == 7
\* Rows of the history analyze_price returns; days of the mock chart.
HistoryRows == 10
MockDays == 30

VARIABLES
    pc,                 \* position of orchestrate_recommendation
    query,              \* the query argument
    products,           \* search_result['products'][:top_n], as product IDs
    clock,              \* seconds since the fan-out was launched (0 when no
                        \* fan-in is in progress)
    loopBlocked,        \* the event loop is inside a synchronous call
    review_task,        \* state of each asyncio task of the fan-out
    price_task,
    comparison_task,
    buyplan_task,
    review_calls,       \* outcome of each analyze_reviews call, by position
    price_calls,        \* outcome of each analyze_price call, by position
    review_results,     \* value of review_task: product ID -> record
    price_results,      \* value of price_task: product ID -> record
    comparison_result,  \* value of comparison_task
    buyplan_result,     \* value of buyplan_task
    buyplan_late,       \* create_purchase_plan returned after BuyPlanTimeout
    ceiling_fired,      \* the wait_for(..., 120) raised TimeoutError
    response,           \* the value returned to the caller
    review_cache,       \* SimpleCache.cache of review_cache: key -> entry
    now,                \* datetime.now(), in seconds
    advances,           \* steps the wall clock has taken
    ra_pc,              \* position of analyze_reviews: "idle" or "llm"
    ra_product,         \* product_id of the analyze_reviews calls
    ra_started,         \* time at which the LLM call was issued
    ra_sum,             \* sum of the ratings read by the current/last call
    ra_total,           \* number of reviews read by the current/last call
    ra_outcome,         \* how the last call ended
    ra_result,          \* the dict returned by the last call
    cache_lock,         \* SimpleCache.lock: 0 when free, else the holder
    cache_threads,      \* per thread: the call in progress or last made
    cache_last,         \* per key: value and time of the last set that no
                        \* remove or clear has followed
    rp_calls,           \* orchestrate_recommendation calls completed
    rp_history,         \* per product: it has rows of price history
    rp_first,           \* analysis blocks of the first response
    rp_second,          \* analysis blocks of the second response
    cp_catalog,         \* the products table: product ID -> row
    cp_cache,           \* SimpleCache.cache of comparison_cache
    cp_before,          \* cp_cache at the entry of the current/last call
    cp_now,             \* datetime.now(), in seconds
    cp_calls,           \* compare_products calls made
    cp_waits,           \* waits between the calls
    cp_pc,              \* position of compare_products: "idle" or "llm"
    cp_ids,             \* product_ids of the call in progress
    cp_key,             \* cache_key of the current/last call
    cp_class,           \* kind of the product_ids of the current/last call
    cp_permuted,        \* the current/last call got another list than the
                        \* call that first computed the entry of its key
    cp_outcome,         \* how the last call ended
    cp_result,          \* the dict returned by the last call
    cp_first,           \* per cache key: the first computed comparison
    sr_pc,              \* position of search_products
    sr_elapsed,         \* seconds spent in the intent LLM call
    sr_limit,           \* the limit argument
    sr_llm,             \* what the intent LLM call did
    sr_intent,          \* the value _parse_search_intent returned
    sr_vector,          \* what the vector index did
    sr_semantic,        \* semantic_results
    sr_traditional,     \* traditional_results, as product IDs
    sr_result,          \* the dict search_products returned
    pt_pc,              \* position of the price analysis of one product
    pt_history,         \* rows of the price history, newest first
    pt_current,         \* price of the product record
    pt_analysis,        \* the price slot of the product
    pt_block,           \* the price_tracking block of the response
    dc_pc,              \* position of the product on its way to the response
    dc_price,           \* price of the catalog row
    dc_mrp,             \* mrp of the catalog row (0 when it has none)
    dc_product,         \* the product dict of _enrich_results
    dc_pricing,         \* the pricing block of the response
    bp_pc,              \* position of create_purchase_plan
    bp_price,           \* price of the product, in rupees
    bp_mrp,             \* mrp of the product (0 when it has none)
    bp_offers,          \* the card offers of the product
    bp_plan,            \* the purchase plan
    ts_pc,              \* position of analyze_reviews with respect to the trust score
    ts_stats,           \* the review statistics of the product
    ts_path,            \* the path that built the result: the LLM or the fallback
    ts_score,           \* trust_score of the result, as a fraction
    pr_pc,              \* position of analyze_reviews with respect to the parsing
    pr_text,            \* the lines of the LLM analysis
    pr_parsed,          \* sentiment, pros, cons and summary of the result
    wk_agent,           \* agent that made each LLM call ("none" before the call)
    wk_call,            \* each LLM call as its agent sees it
    wk_thread,          \* the worker thread of the executor of each call
    wk_executor,        \* the ThreadPoolExecutor of each call
    bg_agent,           \* agent whose task the orchestrator awaits ("none" before)
    bg_pc,              \* where the agent task is: start, waiting, answered, fallback, cut_off
    bg_clock,           \* seconds since the orchestrator started the task
    bg_cached,          \* the agent stored its result in its cache
    al_heap,            \* the result dicts in memory, by reference (1, 2, ...)
    al_cache,           \* comparison_cache.cache: key -> (reference, timestamp)
    al_stored,          \* the value each set(k, .) was given, as it was then
    al_got,             \* key and value of the last get that found an entry
    al_clock,           \* datetime.now(), in seconds
    al_waits,           \* steps of the clock so far
    al_requests         \* requests served so far

orchVars == <<pc, query, products, clock, loopBlocked, review_task, price_task,
              comparison_task, buyplan_task, review_calls, price_calls,
              review_results, price_results, comparison_result,
              buyplan_result, buyplan_late, ceiling_fired, response>>

reviewVars == <<review_cache, now, advances, ra_pc, ra_product, ra_started,
                ra_sum, ra_total, ra_outcome, ra_result>>

threadVars == <<cache_lock, cache_threads, cache_last>>

repeatVars == <<rp_calls, rp_history, rp_first, rp_second>>

compareVars == <<cp_catalog, cp_cache, cp_before, cp_now, cp_calls, cp_waits,
                 cp_pc, cp_ids, cp_key, cp_class, cp_permuted, cp_outcome,
                 cp_result, cp_first>>

searchVars == <<sr_pc, sr_elapsed, sr_limit, sr_llm, sr_intent, sr_vector,
                sr_semantic, sr_traditional, sr_result>>

priceVars == <<pt_pc, pt_history, pt_current, pt_analysis, pt_block>>

discountVars == <<dc_pc, dc_price, dc_mrp, dc_product, dc_pricing>>

buyplanVars == <<bp_pc, bp_price, bp_mrp, bp_offers, bp_plan>>

trustVars == <<ts_pc, ts_stats, ts_path, ts_score>>

parseVars == <<pr_pc, pr_text, pr_parsed>>

workerVars == <<wk_agent, wk_call, wk_thread, wk_executor>>

budgetVars == <<bg_agent, bg_pc, bg_clock, bg_cached>>

aliasVars == <<al_heap, al_cache, al_stored, al_got, al_clock, al_waits,
               al_requests>>

vars == <<orchVars, reviewVars, threadVars, repeatVars, compareVars,
          searchVars, priceVars, discountVars, buyplanVars, trustVars,
          parseVars, workerVars, budgetVars, aliasVars>>

\* What the actions of each specification leave alone.
restOfOrch == <<reviewVars, threadVars, repeatVars, compareVars,
                searchVars, priceVars, discountVars, buyplanVars,
                trustVars, parseVars, workerVars, budgetVars, aliasVars>>
restOfReview == <<orchVars, threadVars, repeatVars, compareVars,
                  searchVars, priceVars, discountVars, buyplanVars,
                  trustVars, parseVars, workerVars, budgetVars, aliasVars>>
restOfCache == <<orchVars, ra_pc, ra_product, ra_started, ra_sum, ra_total,
                 ra_outcome, ra_result, repeatVars, compareVars,
                 searchVars, priceVars, discountVars, buyplanVars,
                 trustVars, parseVars, workerVars, budgetVars, aliasVars>>
restOfRepeat == <<orchVars, reviewVars, threadVars, compareVars,
                  searchVars, priceVars, discountVars, buyplanVars,
                  trustVars, parseVars, workerVars, budgetVars, aliasVars>>
restOfCompare == <<orchVars, reviewVars, threadVars, repeatVars,
                   searchVars, priceVars, discountVars, buyplanVars,
                   trustVars, parseVars, workerVars, budgetVars, aliasVars>>
restOfSearch == <<orchVars, reviewVars, threadVars, repeatVars,
                  compareVars, priceVars, discountVars, buyplanVars,
                  trustVars, parseVars, workerVars, budgetVars, aliasVars>>
restOfPrice == <<orchVars, reviewVars, threadVars, repeatVars, compareVars,
                 searchVars, discountVars, buyplanVars, trustVars,
                 parseVars, workerVars, budgetVars, aliasVars>>
restOfDiscount == <<orchVars, reviewVars, threadVars, repeatVars,
                    compareVars, searchVars, priceVars, buyplanVars,
                    trustVars, parseVars, workerVars, budgetVars,
                    aliasVars>>
restOfBuyPlan == <<orchVars, reviewVars, threadVars, repeatVars,
                   compareVars, searchVars, priceVars, discountVars,
                   trustVars, parseVars, workerVars, budgetVars, aliasVars>>
restOfTrust == <<orchVars, reviewVars, threadVars, repeatVars, compareVars,
                 searchVars, priceVars, discountVars, buyplanVars,
                 parseVars, workerVars, budgetVars, aliasVars>>
restOfParse == <<orchVars, reviewVars, threadVars, repeatVars, compareVars,
                 searchVars, priceVars, discountVars, buyplanVars,
                 trustVars, workerVars, budgetVars, aliasVars>>
restOfWorker == <<orchVars, reviewVars, threadVars, repeatVars,
                  compareVars, searchVars, priceVars, discountVars,
                  buyplanVars, trustVars, parseVars, budgetVars, aliasVars>>
restOfBudget == <<orchVars, reviewVars, threadVars, repeatVars,
                  compareVars, searchVars, priceVars, discountVars,
                  buyplanVars, trustVars, parseVars, workerVars, aliasVars>>
restOfAlias == <<orchVars, reviewVars, threadVars, repeatVars, compareVars,
                 searchVars, priceVars, discountVars, buyplanVars,
                 trustVars, parseVars, workerVars, budgetVars>>

\* ----------------------------------------------------------------- helpers
Min(a, b) == IF a <= b THEN a ELSE b

Range(s) == {s[i] : i \in 1..Len(s)}

Take(s, n) == SubSeq(s, 1, Min(n, Len(s)))

\* Sequences over S of length <= n without repeated elements.
RECURSIVE DistinctSeqs(_, _)
DistinctSeqs(S, n) ==
    IF n = 0 THEN {<<>>}
    ELSE LET shorter == DistinctSeqs(S, n - 1)
         IN shorter \cup
            UNION {{Append(t, x) : x \in S \ Range(t)} :
                      t \in {u \in shorter : Len(u) = n - 1}}

Perms(n) == {s \in DistinctSeqs(1..n, n) : Len(s) = n}

ProductIds == 1..MaxProducts
Queries == {"wireless headphones under 5000"}

\* The points at which the clock is observed: every deadline of the fan-out
\* and one point after the last of them.  A clock value c stands for the
\* interval from c up to the next point.
TimePoints == {0, BuyPlanTimeout, PriceTimeout, ReviewTimeout, CompareTimeout,
               GlobalTimeout, Horizon}

NextTime(c) == CHOOSE t \in TimePoints :
                  t > c /\ \A u \in TimePoints : u > c => t <= u

\* ------------------------------------------------------------ agent records
\* A dict returned by an agent (or built by the orchestrator in its place).
\* isNone: the Python value None; src: the product ID of the call whose
\* outcome the record carries (0 when there is none).
Dict(success, error, src) ==
    [isNone |-> FALSE, success |-> success, error |-> error, src |-> src]
None == [isNone |-> TRUE, success |-> FALSE, error |-> "", src |-> 0]
EmptyDict == Dict(FALSE, "", 0)

\* Outcomes of one agent call under asyncio.wait_for: "ok", the call
\* returned a dict with success=True; "fail", it returned a dict with
\* success=False or raised an exception (the orchestrator turns the exception
\* into a success=False dict carrying its text); "timeout", wait_for raised
\* TimeoutError.
CallOutcomes == {"ok", "fail", "timeout"}

\* ------------------------------------------------- the fan-out coroutines
\* The record _analyze_all_reviews / _track_all_prices puts in the slot of
\* the call made for product pid, from that call's outcome.
SlotRecord(pid, outcome) ==
    CASE outcome = "ok"      -> Dict(TRUE, "", pid)
      [] outcome = "timeout" -> Dict(FALSE, "Timeout", pid)
      [] OTHER               -> Dict(FALSE, "error", pid)

\* Position of the last occurrence of p in ids (a dict comprehension keeps
\* the last value written under a key).
LastIndex(ids, p) ==
    CHOOSE i \in 1..Len(ids) :
        ids[i] = p /\ \A j \in 1..Len(ids) : ids[j] = p => j <= i

\* zip(product_ids, results) with results in completion order: the slot of
\* the k-th product receives the call that finished k-th.
MapResultsByArrival(product_ids, outcomes, order) ==
    [p \in Range(product_ids) |->
        LET k == LastIndex(product_ids, p)
        IN SlotRecord(product_ids[order[k]], outcomes[order[k]])]

\* The dict built by _analyze_all_reviews and _track_all_prices:
\* asyncio.gather returns the results in the order of its arguments,
\* whatever order the calls finished in (order), and zip pairs them with
\* product_ids position by position.
MapResults(product_ids, outcomes, order) ==
    [p \in Range(product_ids) |->
        LET i == LastIndex(product_ids, p)
        IN SlotRecord(product_ids[i], outcomes[i])]

\* comparison_ids = product_ids[:min(5, len(product_ids))]
ComparisonIds(product_ids) == Take(product_ids, Min(MaxCompare, Len(product_ids)))

\* The dict returned by _compare_products for an outcome of the wrapped
\* comparison_agent.compare_products call.
CompareRecord(outcome) ==
    CASE outcome = "ok"      -> Dict(TRUE, "", 0)
      [] outcome = "timeout" -> Dict(FALSE, "Comparison timeout", 0)
      [] OTHER               -> Dict(FALSE, "error", 0)

TooFewToCompare == Dict(FALSE, "Need at least 2 products to compare", 0)

\* The dict returned by _create_buy_plan when create_purchase_plan returns.
BuyPlanRecord(outcome, pid) ==
    IF outcome = "ok" THEN Dict(TRUE, "", pid) ELSE Dict(FALSE, "error", pid)

\* ------------------------------------------------------ response assembly
\* dict.get(key, {}) on a results dict.
Get(results, pid) == IF pid \in DOMAIN results THEN results[pid] ELSE EmptyDict

\* _enrich_products walking the products from the last to the first.
_enrich_products_reversed(prods, reviews, prices) ==
    [i \in 1..Len(prods) |->
        [id              |-> prods[Len(prods) + 1 - i],
         review_analysis |-> Get(reviews, prods[Len(prods) + 1 - i]),
         price_analysis  |-> Get(prices, prods[Len(prods) + 1 - i])]]

\* _enrich_products: one entry per product, in the order of products, with
\* the review and price records stored under the product's own ID.
_enrich_products(prods, reviews, prices) ==
    [i \in 1..Len(prods) |->
        [id              |-> prods[i],
         review_analysis |-> Get(reviews, prods[i]),
         price_analysis  |-> Get(prices, prods[i])]]

\* A block of the response: isNone is the JSON null.
Block(available, error) ==
    [isNone |-> FALSE, available |-> available, error |-> error]
NullBlock == [isNone |-> TRUE, available |-> FALSE, error |-> ""]

\* Python truth value of an agent record: None and {} are falsy.
Truthy(rec) == ~rec.isNone /\ rec # EmptyDict

\* formatted_comparison of _format_user_friendly_response.
FormatComparison(comparison) ==
    IF Truthy(comparison)
    THEN IF comparison.success
         THEN Block(TRUE, "")
         ELSE Block(FALSE, comparison.error)
    ELSE NullBlock

\* formatted_buyplan of _format_user_friendly_response.
FormatBuyPlan(buyplan) ==
    IF Truthy(buyplan) /\ buyplan.error = ""
    THEN Block(TRUE, "")
    ELSE NullBlock

\* formatted_products of _format_user_friendly_response.
FormatProducts(enriched) ==
    [i \in 1..Len(enriched) |->
        [rank            |-> i,
         id              |-> enriched[i].id,
         review_analysis |-> [available |-> enriched[i].review_analysis.success,
                              src       |-> enriched[i].review_analysis.src],
         price_tracking  |-> [available |-> enriched[i].price_analysis.success,
                              src       |-> enriched[i].price_analysis.src]]]

_format_user_friendly_response(q, enriched, comparison, buyplan) ==
    [success    |-> TRUE,
     error      |-> "",
     query      |-> q,
     products   |-> FormatProducts(enriched),
     comparison |-> FormatComparison(comparison),
     buy_plan   |-> FormatBuyPlan(buyplan)]

\* The dict returned on the early-return and except paths.
ErrorResponse(q, error) ==
    [success    |-> FALSE,
     error      |-> error,
     query      |-> q,
     products   |-> <<>>,
     comparison |-> NullBlock,
     buy_plan   |-> NullBlock]

NoResponse == ErrorResponse("", "")

\* ------------------------------------------------------------- retrieval
\* What product_search_agent.search_products can hand back: an exception,
\* success=False, or success=True with a ranked list of distinct products.
SearchResults ==
    {[kind |-> k, products |-> <<>>] : k \in {"raise", "fail"}}
    \cup {[kind |-> "ok", products |-> r] :
              r \in DistinctSeqs(ProductIds, MaxProducts)}

\* not search_result.get('success') or not search_result.get('products')
RetrievalEmpty(sr) == sr.kind # "ok" \/ sr.products = <<>>

\* The four tasks created before the result of the search is looked at.
LaunchStateEager(sr) == "pending"

\* State of the four analysis tasks once the retrieval step has run: they
\* are created only past the early return.
LaunchState(sr) == IF RetrievalEmpty(sr) THEN "none" ELSE "pending"

\* ------------------------------------------------------------ task states
\* "none": not created; "pending": created, not finished; "blocked": inside
\* a synchronous call that holds the event loop; "done": finished with a
\* result; "cancelled": finished by cancellation.
AllTasks == <<review_task, price_task, comparison_task, buyplan_task>>

\* Task.done(): True for a finished task, cancelled ones included.
TaskDone(t) == t \in {"done", "cancelled"}

\* Task.result() raises CancelledError for a cancelled task.
ResultRaises(t) == t = "cancelled"

\* asyncio.wait_for cancels the gather when the ceiling fires, and the
\* gather cancels each child that has not finished.
CancelUnfinished(t) == IF t = "done" THEN "done" ELSE "cancelled"

\* task.result() if task.done() else default
Harvest(t, value, default) == IF TaskDone(t) THEN value ELSE default

AllDone == \A i \in 1..4 : AllTasks[i] = "done"

\* Work the event loop runs as soon as it is free: a coroutine that has not
\* had its first step, a timer that is due, a finished gather.
UrgentWork ==
    \/ buyplan_task = "pending"
    \/ review_task = "pending" /\ clock >= ReviewTimeout
    \/ price_task = "pending" /\ clock >= PriceTimeout
    \/ comparison_task = "pending" /\ clock >= CompareTimeout
    \/ comparison_task = "pending" /\ Len(ComparisonIds(products)) < 2
    \/ clock >= GlobalTimeout
    \/ AllDone

\* ----------------------------------------------------------- SimpleCache
\* cache_key = f"review_analysis_{product_id}"
CacheKey(product_id) == <<"review_analysis", product_id>>

\* SimpleCache.set: store (value, datetime.now()) under key.
CacheSet(cache, key, value, t) ==
    [k \in DOMAIN cache \cup {key} |->
        IF k = key THEN [value |-> value, timestamp |-> t] ELSE cache[k]]

\* del self.cache[key]
CacheDel(cache, key) == [k \in DOMAIN cache \ {key} |-> cache[k]]

\* SimpleCache.get: the value if the entry is younger than ttl, else None,
\* an expired entry being removed.  hit is the truth value of the return.
CacheGet(cache, key, t, ttl) ==
    IF key \in DOMAIN cache
    THEN IF t - cache[key].timestamp < ttl
         THEN [hit |-> TRUE, value |-> cache[key].value, cache |-> cache]
         ELSE [hit |-> FALSE, value |-> None, cache |-> CacheDel(cache, key)]
    ELSE [hit |-> FALSE, value |-> None, cache |-> cache]

\* ------------------------------------------------------- review analyzer
Ratings == 1..5

\* The reviews of a product, as the non-decreasing list of their ratings.
RatingLists ==
    {r \in UNION {[1..n -> Ratings] : n \in 0..MaxReviews} :
        \A i \in 1..Len(r) - 1 : r[i] <= r[i + 1]}

RECURSIVE SumSeq(_)
SumSeq(r) == IF r = <<>> THEN 0 ELSE Head(r) + SumSeq(Tail(r))

\* stats['average_rating'] = round(sum / total, 2), in hundredths.  No list
\* of ratings within MaxReviews lies on a rounding tie.
AverageRating100(sum, total) == (200 * sum + total) \div (2 * total)

\* 'Positive' if avg_rating >= 4 else 'Neutral' if avg_rating >= 3 else
\* 'Negative'
FallbackSentiment(avg100) ==
    IF avg100 >= 400 THEN "Positive"
    ELSE IF avg100 >= 300 THEN "Neutral" ELSE "Negative"

Sentiments == {"Positive", "Neutral", "Negative"}

\* The dicts analyze_reviews returns.
AnalysisResult(full_analysis, sentiment, product_id) ==
    [success |-> TRUE, full_analysis |-> full_analysis, sentiment |-> sentiment,
     product_id |-> product_id, error |-> "", message |-> "",
     isNone |-> FALSE]
NoReviewsResultAsSuccess(product_id) ==
    [success |-> TRUE, full_analysis |-> "", sentiment |-> "",
     product_id |-> product_id, error |-> "",
     message |-> "No reviews found for this product", isNone |-> FALSE]
NoReviewsResult(product_id) ==
    [success |-> FALSE, full_analysis |-> "", sentiment |-> "",
     product_id |-> product_id, error |-> "",
     message |-> "No reviews found for this product", isNone |-> FALSE]
ReviewErrorResult(product_id) ==
    [success |-> FALSE, full_analysis |-> "", sentiment |-> "",
     product_id |-> product_id, error |-> "error", message |-> "",
     isNone |-> FALSE]
NoResult ==
    [success |-> FALSE, full_analysis |-> "", sentiment |-> "", product_id |-> 0,
     error |-> "", message |-> "", isNone |-> TRUE]

\* Steps of the wall clock: the LLM timeout, and what is left of the TTL
\* after it.
TimeSteps == {ReviewLLMTimeout, ReviewTTL - ReviewLLMTimeout}

ReviewInit(pids) ==
    /\ review_cache = <<>>
    /\ now = 0
    /\ advances = 0
    /\ ra_pc = "idle"
    /\ ra_product \in pids
    /\ ra_started = 0
    /\ ra_sum = 0
    /\ ra_total = 0
    /\ ra_outcome = "none"
    /\ ra_result = NoResult

\* The threads that call into the cache, all outside it.
Threads == 1..MaxThreads

IdleThread ==
    [pc |-> "idle", op |-> "none", key |-> CacheKey(1), value |-> NoResult,
     ret |-> NoResult, expect |-> NoResult, raised |-> FALSE,
     gone |-> FALSE]

ThreadInit ==
    /\ cache_lock = 0
    /\ cache_threads = [t \in Threads |-> IdleThread]
    /\ cache_last = <<>>

\* Before the first of the two calls; histories is the set of price_history
\* tables of the catalog.
RepeatInit(histories) ==
    /\ rp_calls = 0
    /\ rp_history \in histories
    /\ rp_first = <<>>
    /\ rp_second = <<>>

NoRepeat == RepeatInit({[p \in ProductIds |-> TRUE]})

\* The result dicts of compare_products.
CompareFailure(error) ==
    [success |-> FALSE, error |-> error, products |-> <<>>,
     differences |-> <<>>, winners |-> <<>>, comparison_output |-> "",
     ai_analysis |-> "", comparison_style |-> "", isNone |-> FALSE]
NoComparison ==
    [success |-> FALSE, error |-> "", products |-> <<>>,
     differences |-> <<>>, winners |-> <<>>, comparison_output |-> "",
     ai_analysis |-> "", comparison_style |-> "", isNone |-> TRUE]

\* Before the first compare_products call; catalogs is the set of products
\* tables, styles the comparison_style the caller may use in its calls.
CompareInit(catalogs, styles) ==
    /\ cp_catalog \in catalogs
    /\ cp_cache = <<>>
    /\ cp_before = <<>>
    /\ cp_now = 0
    /\ cp_calls = 0
    /\ cp_waits = 0
    /\ cp_pc = "idle"
    /\ cp_ids = <<>>
    /\ cp_key \in {<<"comparison", <<>>, style>> : style \in styles}
    /\ cp_class = "none"
    /\ cp_permuted = FALSE
    /\ cp_outcome = "none"
    /\ cp_result = NoComparison
    /\ cp_first = <<>>

NoCompare ==
    CompareInit({[p \in ProductIds |-> [price |-> 1000, rating |-> 4]]},
                {"detailed"})

\* The values _parse_search_intent can return: a dict (the fallback, or
\* what json.loads made of an object) or another JSON value.
FallbackIntent ==
    [type |-> "dict", keywords |-> "query.lower().split()", category |-> ""]
NoIntent == [type |-> "none", keywords |-> "", category |-> ""]

SearchFailure(error) == [success |-> FALSE, error |-> error, products |-> <<>>]
SearchSuccess(ranked) == [success |-> TRUE, error |-> "", products |-> ranked]
NoSearchResult == [success |-> FALSE, error |-> "", products |-> <<>>]

\* Before search_products is called.
SearchInit ==
    /\ sr_pc = "start"
    /\ sr_elapsed = 0
    /\ sr_limit = 0
    /\ sr_llm = "none"
    /\ sr_intent = NoIntent
    /\ sr_vector = "none"
    /\ sr_semantic = <<>>
    /\ sr_traditional = <<>>
    /\ sr_result = NoSearchResult

\* The components modelled after the comparison, before their first call.
\* The price slot of a product: the dict of analyze_price or the failure
\* dict of _track_all_prices; has_trend tells whether price_data is there.
NoTrend ==
    [current_price |-> 0, min_price |-> 0, max_price |-> 0, trend |-> "",
     recommendation |-> "", data_points |-> 0, has_chart |-> FALSE]
NoAnalysis ==
    [success |-> FALSE, has_trend |-> FALSE, price_data |-> NoTrend,
     history |-> <<>>, recommendation |-> ""]
NoChart == [labels |-> 0, data |-> <<>>]
NoBlock ==
    [available |-> FALSE, recommendation |-> "", chart_data |-> NoChart,
     history_days |-> 0]

\* Before the price analysis of the product.
PriceInit ==
    /\ pt_pc = "start"
    /\ pt_history = <<>>
    /\ pt_current = 0
    /\ pt_analysis = NoAnalysis
    /\ pt_block = NoBlock

\* Before the product is retrieved.
DiscountInit ==
    /\ dc_pc = "start"
    /\ dc_price = 0
    /\ dc_mrp = 0
    /\ dc_product = <<>>
    /\ dc_pricing = <<>>

\* None where a payment option is expected.
NoOption ==
    [kind |-> "none", payment_type |-> "none", total_savings |-> 0,
     emi_per_month |-> 0, tenure_months |-> 0]
NoPlan ==
    [success |-> FALSE, payment_options |-> <<>>, regular_emi_plans |-> <<>>,
     no_cost_emi_plans |-> <<>>, best_instant_savings |-> NoOption,
     best_cashback |-> NoOption, best_emi |-> NoOption]

\* Before create_purchase_plan is called.
BuyPlanInit ==
    /\ bp_pc = "start"
    /\ bp_price = 0
    /\ bp_mrp = 0
    /\ bp_offers = <<>>
    /\ bp_plan = NoPlan

\* Before the reviews of the product are read.
NoStats ==
    [total_reviews |-> 0, verified_purchases |-> 0, five_star |-> 0,
     one_star |-> 0]
TrustInit ==
    /\ ts_pc = "start"
    /\ ts_stats = NoStats
    /\ ts_path = "none"
    /\ ts_score = [num |-> 0, den |-> 1]

\* Before the analysis text of a product is there.
NoParse ==
    [path |-> "none", sentiment |-> "", pros |-> <<>>, cons |-> <<>>,
     summary |-> <<>>]
ParseInit ==
    /\ pr_pc = "start"
    /\ pr_text = <<>>
    /\ pr_parsed = NoParse

\* Before any agent has called the LLM.
WorkerInit ==
    /\ wk_agent = [c \in 1..MaxCalls |-> "none"]
    /\ wk_call = [c \in 1..MaxCalls |-> "idle"]
    /\ wk_thread = [c \in 1..MaxCalls |-> "none"]
    /\ wk_executor = [c \in 1..MaxCalls |-> "none"]

\* Before the orchestrator starts the agent task.
BudgetInit ==
    /\ bg_agent = "none"
    /\ bg_pc = "start"
    /\ bg_clock = 0
    /\ bg_cached = FALSE

\* No comparison in the cache; no request served.
NoRef == [ref |-> 0, timestamp |-> 0]
NoGet == [key |-> "", value |-> {}]
AliasKeys == {"comparison_1_2_detailed", "comparison_1_3_detailed"}
AliasInit ==
    /\ al_heap = <<>>
    /\ al_cache = [k \in AliasKeys |-> NoRef]
    /\ al_stored = [k \in AliasKeys |-> {}]
    /\ al_got = NoGet
    /\ al_clock = 0
    /\ al_waits = 0
    /\ al_requests = 0

LaterIdle ==
    /\ SearchInit
    /\ PriceInit
    /\ DiscountInit
    /\ BuyPlanInit
    /\ TrustInit
    /\ ParseInit
    /\ WorkerInit
    /\ BudgetInit
    /\ AliasInit

\* Every component but the orchestrator, before its first call.
OthersIdle == ThreadInit /\ NoRepeat /\ NoCompare /\ LaterIdle

\* analyze_reviews from its entry to the await of the LLM call: the cache
\* lookup, the reads of the reviews and statistics, the no-review return.
\* db_ok = FALSE: a query raises and the outer except returns the error
\* dict.
AnalyzeStart(reviews, db_ok) ==
    /\ ra_pc = "idle"
    /\ LET g == CacheGet(review_cache, CacheKey(ra_product), now, ReviewTTL)
       IN /\ review_cache' = g.cache
          /\ IF g.hit
             THEN /\ ra_result' = g.value
                  /\ ra_outcome' = "hit"
                  /\ ra_sum' = 0 /\ ra_total' = 0
                  /\ UNCHANGED <<ra_pc, ra_started>>
             ELSE IF ~db_ok
             THEN /\ ra_result' = ReviewErrorResult(ra_product)
                  /\ ra_outcome' = "db_error"
                  /\ ra_sum' = 0 /\ ra_total' = 0
                  /\ UNCHANGED <<ra_pc, ra_started>>
             ELSE IF reviews = <<>>
             THEN /\ ra_result' = NoReviewsResult(ra_product)
                  /\ ra_outcome' = "no_reviews"
                  /\ ra_sum' = 0 /\ ra_total' = 0
                  /\ UNCHANGED <<ra_pc, ra_started>>
             ELSE /\ ra_pc' = "llm"
                  /\ ra_started' = now
                  /\ ra_sum' = SumSeq(reviews)
                  /\ ra_total' = Len(reviews)
                  /\ ra_outcome' = "none"
                  /\ ra_result' = NoResult
    /\ UNCHANGED <<now, advances, ra_product>>
    /\ UNCHANGED restOfReview

\* ollama.generate answered: parse, build the result, cache it, return it.
\* sentiment is what _parse_ai_response reads in the answer.
LLMReturns(sentiment) ==
    /\ ra_pc = "llm"
    /\ ra_pc' = "idle"
    /\ ra_result' = AnalysisResult("llm", sentiment, ra_product)
    /\ review_cache' = CacheSet(review_cache, CacheKey(ra_product),
                                ra_result', now)
    /\ ra_outcome' = "llm_ok"
    /\ UNCHANGED <<now, advances, ra_product, ra_started, ra_sum, ra_total>>
    /\ UNCHANGED restOfReview

\* ollama.generate raised: _generate_sync re-raises, wait_for re-raises, the
\* inner except catches only asyncio.TimeoutError, so the outer
\* except Exception returns the error dict; nothing is cached.
LLMRaises ==
    /\ ra_pc = "llm"
    /\ ra_pc' = "idle"
    /\ ra_result' = ReviewErrorResult(ra_product)
    /\ ra_outcome' = "llm_error"
    /\ UNCHANGED <<review_cache, now, advances, ra_product, ra_started,
                   ra_sum, ra_total>>
    /\ UNCHANGED restOfReview

\* wait_for(..., timeout=90.0) raised TimeoutError: the rule-based result
\* is built, cached and returned.
LLMTimeout ==
    /\ ra_pc = "llm"
    /\ now >= ra_started + ReviewLLMTimeout
    /\ ra_pc' = "idle"
    /\ ra_result' = AnalysisResult("rule",
                        FallbackSentiment(AverageRating100(ra_sum, ra_total)),
                        ra_product)
    /\ review_cache' = CacheSet(review_cache, CacheKey(ra_product),
                                ra_result', now)
    /\ ra_outcome' = "llm_timeout"
    /\ UNCHANGED <<now, advances, ra_product, ra_started, ra_sum, ra_total>>
    /\ UNCHANGED restOfReview

\* The wall clock moves, unless the LLM timer is due.
Advance(step) ==
    /\ advances < MaxAdvances
    /\ ~(ra_pc = "llm" /\ now >= ra_started + ReviewLLMTimeout)
    /\ now' = now + step
    /\ advances' = advances + 1
    /\ UNCHANGED <<review_cache, ra_pc, ra_product, ra_started, ra_sum,
                   ra_total, ra_outcome, ra_result>>
    /\ UNCHANGED restOfReview

\* --------------------------------------------------------------- actions
OrchInit ==
    /\ pc = "start"
    /\ query \in Queries
    /\ products = <<>>
    /\ clock = 0
    /\ loopBlocked = FALSE
    /\ review_task = "none"
    /\ price_task = "none"
    /\ comparison_task = "none"
    /\ buyplan_task = "none"
    /\ review_calls = <<>>
    /\ price_calls = <<>>
    /\ review_results = <<>>
    /\ price_results = <<>>
    /\ comparison_result = None
    /\ buyplan_result = None
    /\ buyplan_late = FALSE
    /\ ceiling_fired = FALSE
    /\ response = NoResponse

Init == OrchInit /\ ReviewInit({1}) /\ OthersIdle

\* orchestrate_recommendation from its entry to the await of the fan-in:
\* the search, the early return, the creation of the four tasks.
Begin(top_n, sr) ==
    /\ pc = "start"
    /\ review_task' = LaunchState(sr)
    /\ price_task' = LaunchState(sr)
    /\ comparison_task' = LaunchState(sr)
    /\ buyplan_task' = LaunchState(sr)
    /\ IF sr.kind = "raise"
       THEN /\ response' = ErrorResponse(query, "exception")
            /\ pc' = "done"
            /\ products' = <<>>
       ELSE IF RetrievalEmpty(sr)
       THEN /\ response' = ErrorResponse(query,
                                "No products found matching your query")
            /\ pc' = "done"
            /\ products' = <<>>
       ELSE /\ products' = Take(sr.products, top_n)
            /\ pc' = "fanin"
            /\ UNCHANGED response
    /\ UNCHANGED <<query, clock, loopBlocked, review_calls, price_calls,
                   review_results, price_results, comparison_result,
                   buyplan_result, buyplan_late, ceiling_fired>>
    /\ UNCHANGED restOfOrch

\* _analyze_all_reviews resumes from its gather and returns its dict.
ReviewTaskDone(outcomes, order) ==
    /\ pc = "fanin" /\ ~loopBlocked
    /\ review_task = "pending"
    /\ (\E i \in 1..Len(products) : outcomes[i] = "timeout")
          => clock >= ReviewTimeout
    /\ review_task' = "done"
    /\ review_calls' = outcomes
    /\ review_results' = MapResults(products, outcomes, order)
    /\ UNCHANGED <<pc, query, products, clock, loopBlocked, price_task,
                   comparison_task, buyplan_task, price_calls, price_results,
                   comparison_result, buyplan_result, buyplan_late,
                   ceiling_fired, response>>
    /\ UNCHANGED restOfOrch

\* _track_all_prices resumes from its gather and returns its dict.
PriceTaskDone(outcomes, order) ==
    /\ pc = "fanin" /\ ~loopBlocked
    /\ price_task = "pending"
    /\ (\E i \in 1..Len(products) : outcomes[i] = "timeout")
          => clock >= PriceTimeout
    /\ price_task' = "done"
    /\ price_calls' = outcomes
    /\ price_results' = MapResults(products, outcomes, order)
    /\ UNCHANGED <<pc, query, products, clock, loopBlocked, review_task,
                   comparison_task, buyplan_task, review_calls, review_results,
                   comparison_result, buyplan_result, buyplan_late,
                   ceiling_fired, response>>
    /\ UNCHANGED restOfOrch

\* _compare_products returns: at once with fewer than 2 IDs, else when the
\* wrapped compare_products call returns, raises or times out.
CompareTaskDone(outcome) ==
    /\ pc = "fanin" /\ ~loopBlocked
    /\ comparison_task = "pending"
    /\ IF Len(ComparisonIds(products)) < 2
       THEN /\ outcome = "fail"
            /\ comparison_result' = TooFewToCompare
       ELSE /\ outcome = "timeout" => clock >= CompareTimeout
            /\ comparison_result' = CompareRecord(outcome)
    /\ comparison_task' = "done"
    /\ UNCHANGED <<pc, query, products, clock, loopBlocked, review_task,
                   price_task, buyplan_task, review_calls, price_calls,
                   review_results, price_results, buyplan_result,
                   buyplan_late, ceiling_fired, response>>
    /\ UNCHANGED restOfOrch

\* First step of create_purchase_plan under _create_buy_plan.  None of its
\* awaits suspends (buyplan_tools only awaits coroutines that run
\* synchronous queries), so it either returns at once (payment comparison
\* failed, product not found, an exception) or enters the synchronous
\* self.client.chat call of _generate_ai_recommendation, which holds the
\* event loop until the LLM answers.
BuyPlanStart(step) ==
    /\ pc = "fanin" /\ ~loopBlocked
    /\ buyplan_task = "pending"
    /\ IF step = "llm"
       THEN /\ buyplan_task' = "blocked"
            /\ loopBlocked' = TRUE
            /\ UNCHANGED <<buyplan_result, buyplan_late>>
       ELSE /\ buyplan_task' = "done"
            /\ buyplan_result' = BuyPlanRecord(step, Head(products))
            /\ buyplan_late' = (clock > BuyPlanTimeout)
            /\ UNCHANGED loopBlocked
    /\ UNCHANGED <<pc, query, products, clock, review_task, price_task,
                   comparison_task, review_calls, price_calls, review_results,
                   price_results, comparison_result, ceiling_fired, response>>
    /\ UNCHANGED restOfOrch

\* self.client.chat returns or raises (the except of
\* _generate_ai_recommendation turns a raise into the canned text), the
\* plan is built and _create_buy_plan returns it.  The wait_for around the
\* call never raises TimeoutError: the coroutine it wraps has finished by
\* the time the event loop can run the timer.
BuyPlanReturn(outcome) ==
    /\ pc = "fanin"
    /\ buyplan_task = "blocked"
    /\ buyplan_task' = "done"
    /\ loopBlocked' = FALSE
    /\ buyplan_result' = BuyPlanRecord(outcome, Head(products))
    /\ buyplan_late' = (clock > BuyPlanTimeout)
    /\ UNCHANGED <<pc, query, products, clock, review_task, price_task,
                   comparison_task, review_calls, price_calls, review_results,
                   price_results, comparison_result, ceiling_fired, response>>
    /\ UNCHANGED restOfOrch

\* The gather finished: unpack, enrich, summarise, format, return.
GatherDone ==
    /\ pc = "fanin" /\ ~loopBlocked
    /\ AllDone
    /\ response' = _format_user_friendly_response(
                        query,
                        _enrich_products(products, review_results, price_results),
                        comparison_result, buyplan_result)
    /\ pc' = "done"
    /\ clock' = 0
    /\ UNCHANGED <<query, products, loopBlocked, review_task,
                   price_task, comparison_task, buyplan_task, review_calls,
                   price_calls, review_results, price_results,
                   comparison_result, buyplan_result, buyplan_late,
                   ceiling_fired>>
    /\ UNCHANGED restOfOrch

\* The 120 s ceiling fires with the gather unfinished: wait_for cancels it
\* and raises TimeoutError; the handler asks every task for its result.
\* CancelledError is not an Exception, so the except Exception of
\* orchestrate_recommendation does not catch it.
GlobalCeiling ==
    /\ pc = "fanin" /\ ~loopBlocked
    /\ clock >= GlobalTimeout
    /\ ~AllDone
    /\ ceiling_fired' = TRUE
    /\ review_task' = CancelUnfinished(review_task)
    /\ price_task' = CancelUnfinished(price_task)
    /\ comparison_task' = CancelUnfinished(comparison_task)
    /\ buyplan_task' = CancelUnfinished(buyplan_task)
    /\ IF \/ ResultRaises(review_task') \/ ResultRaises(price_task')
          \/ ResultRaises(comparison_task') \/ ResultRaises(buyplan_task')
       THEN /\ pc' = "raised"
            /\ UNCHANGED response
       ELSE /\ pc' = "done"
            /\ response' = _format_user_friendly_response(
                   query,
                   _enrich_products(products,
                       Harvest(review_task', review_results, <<>>),
                       Harvest(price_task', price_results, <<>>)),
                   Harvest(comparison_task', comparison_result, None),
                   Harvest(buyplan_task', buyplan_result, None))
    /\ clock' = 0
    /\ UNCHANGED <<query, products, loopBlocked, review_calls,
                   price_calls, review_results, price_results,
                   comparison_result, buyplan_result, buyplan_late>>
    /\ UNCHANGED restOfOrch

\* Time passes.  While the event loop is free it runs every coroutine step
\* and timer that is ready before the clock moves on; while it is held by a
\* synchronous call nothing else runs.
Tick ==
    /\ pc = "fanin"
    /\ clock < Horizon
    /\ loopBlocked \/ ~UrgentWork
    /\ clock' = NextTime(clock)
    /\ UNCHANGED <<pc, query, products, loopBlocked, review_task, price_task,
                   comparison_task, buyplan_task, review_calls, price_calls,
                   review_results, price_results, comparison_result,
                   buyplan_result, buyplan_late, ceiling_fired, response>>
    /\ UNCHANGED restOfOrch

Next ==
    \/ \E top_n \in 1..MaxProducts, sr \in SearchResults : Begin(top_n, sr)
    \/ \E outcomes \in [1..Len(products) -> CallOutcomes],
          order \in Perms(Len(products)) : ReviewTaskDone(outcomes, order)
    \/ \E outcomes \in [1..Len(products) -> CallOutcomes],
          order \in Perms(Len(products)) : PriceTaskDone(outcomes, order)
    \/ \E outcome \in CallOutcomes : CompareTaskDone(outcome)
    \/ \E step \in {"llm", "fail"} : BuyPlanStart(step)
    \/ \E outcome \in {"ok", "fail"} : BuyPlanReturn(outcome)
    \/ GatherDone
    \/ GlobalCeiling
    \/ Tick

Spec == Init /\ [][Next]_vars

InitReview == OrchInit /\ ReviewInit(ProductIds) /\ OthersIdle

NextReview ==
    \/ \E reviews \in RatingLists, db_ok \in BOOLEAN :
          AnalyzeStart(reviews, db_ok)
    \/ \E sentiment \in Sentiments : LLMReturns(sentiment)
    \/ LLMRaises
    \/ LLMTimeout
    \/ \E step \in TimeSteps : Advance(step)

SpecReview == InitReview /\ [][NextReview]_vars

\* ------------------------------------------------ SimpleCache and threads
CacheKeys == {CacheKey(p) : p \in 1..MaxKeys}
CacheValues == {AnalysisResult("llm", "Positive", 1),
                AnalysisResult("rule", "Negative", 1)}
CacheOps == {"get", "set", "remove", "clear"}
ClockSteps == {1, ReviewTTL - 1}

\* with self.lock: the lock can be taken.
NoLock == TRUE
LockFree == cache_lock = 0

\* datetime.now() - timestamp < timedelta(seconds=self.ttl)
FreshInclusive(t, timestamp, ttl) == t - timestamp <= ttl
Fresh(t, timestamp, ttl) == t - timestamp < ttl

\* What a get of key at time t has to return by the history of the calls:
\* the value of the last set if no remove or clear followed it and it is
\* younger than the TTL, else None.
Expected(key, t) ==
    IF key \in DOMAIN cache_last
       /\ t - cache_last[key].timestamp < ReviewTTL
    THEN cache_last[key].value
    ELSE NoResult

\* The thread leaves the with block, by return or by an exception.  Of a
\* call other than get only the exception is remembered.
Leave(t, ret, expect, raised, gone) ==
    /\ cache_lock' = 0
    /\ cache_threads' = [cache_threads EXCEPT
           ![t] = IF @.op = "get"
                  THEN [@ EXCEPT !.pc = "idle", !.ret = ret,
                                 !.expect = expect, !.raised = raised,
                                 !.gone = gone]
                  ELSE [IdleThread EXCEPT !.raised = raised]]

\* A thread calls get, set, remove or clear and enters the with block.
Call(t, op, key, value) ==
    /\ cache_threads[t].pc = "idle"
    /\ LockFree
    /\ cache_lock' = t
    /\ cache_threads' = [cache_threads EXCEPT
           ![t] = [pc |-> op, op |-> op, key |-> key, value |-> value,
                   ret |-> NoResult, expect |-> NoResult, raised |-> FALSE,
                   gone |-> FALSE]]
    /\ UNCHANGED <<review_cache, now, advances, cache_last>>
    /\ UNCHANGED restOfCache

\* get: if key in self.cache
GetCheck(t) ==
    /\ cache_threads[t].pc = "get"
    /\ LET key == cache_threads[t].key
       IN IF key \in DOMAIN review_cache
          THEN /\ cache_threads' = [cache_threads EXCEPT ![t].pc = "get_read"]
               /\ UNCHANGED cache_lock
          ELSE Leave(t, NoResult, Expected(key, now), FALSE, TRUE)
    /\ UNCHANGED <<review_cache, now, advances, cache_last>>
    /\ UNCHANGED restOfCache

\* get: value, timestamp = self.cache[key] and the test of the age.
GetRead(t) ==
    /\ cache_threads[t].pc = "get_read"
    /\ LET key == cache_threads[t].key
       IN IF key \notin DOMAIN review_cache
          THEN Leave(t, NoResult, Expected(key, now), TRUE, FALSE)
          ELSE IF Fresh(now, review_cache[key].timestamp, ReviewTTL)
          THEN Leave(t, review_cache[key].value, Expected(key, now), FALSE,
                     FALSE)
          ELSE /\ cache_threads' = [cache_threads EXCEPT
                      ![t] = [@ EXCEPT !.pc = "get_del",
                                       !.expect = Expected(key, now)]]
               /\ UNCHANGED cache_lock
    /\ UNCHANGED <<review_cache, now, advances, cache_last>>
    /\ UNCHANGED restOfCache

\* get: del self.cache[key]; return None
GetDel(t) ==
    /\ cache_threads[t].pc = "get_del"
    /\ LET key == cache_threads[t].key
       IN IF key \in DOMAIN review_cache
          THEN /\ review_cache' = CacheDel(review_cache, key)
               /\ Leave(t, NoResult, cache_threads[t].expect, FALSE,
                        key \notin DOMAIN review_cache')
          ELSE /\ Leave(t, NoResult, cache_threads[t].expect, TRUE, FALSE)
               /\ UNCHANGED review_cache
    /\ UNCHANGED <<now, advances, cache_last>>
    /\ UNCHANGED restOfCache

\* set: self.cache[key] = (value, datetime.now())
SetStore(t) ==
    /\ cache_threads[t].pc = "set"
    /\ LET key == cache_threads[t].key
           value == cache_threads[t].value
       IN /\ review_cache' = CacheSet(review_cache, key, value, now)
          /\ cache_last' = CacheSet(cache_last, key, value, now)
    /\ Leave(t, NoResult, NoResult, FALSE, FALSE)
    /\ UNCHANGED <<now, advances>>
    /\ UNCHANGED restOfCache

\* remove: if key in self.cache
RemoveCheck(t) ==
    /\ cache_threads[t].pc = "remove"
    /\ LET key == cache_threads[t].key
       IN IF key \in DOMAIN review_cache
          THEN /\ cache_threads' = [cache_threads EXCEPT
                      ![t].pc = "remove_del"]
               /\ UNCHANGED <<cache_lock, cache_last>>
          ELSE /\ Leave(t, NoResult, NoResult, FALSE, TRUE)
               /\ cache_last' = CacheDel(cache_last, key)
    /\ UNCHANGED <<review_cache, now, advances>>
    /\ UNCHANGED restOfCache

\* remove: del self.cache[key]
RemoveDel(t) ==
    /\ cache_threads[t].pc = "remove_del"
    /\ LET key == cache_threads[t].key
       IN /\ cache_last' = CacheDel(cache_last, key)
          /\ IF key \in DOMAIN review_cache
             THEN /\ review_cache' = CacheDel(review_cache, key)
                  /\ Leave(t, NoResult, NoResult, FALSE, TRUE)
             ELSE /\ Leave(t, NoResult, NoResult, TRUE, FALSE)
                  /\ UNCHANGED review_cache
    /\ UNCHANGED <<now, advances>>
    /\ UNCHANGED restOfCache

\* clear: self.cache.clear()
Clear(t) ==
    /\ cache_threads[t].pc = "clear"
    /\ review_cache' = <<>>
    /\ cache_last' = <<>>
    /\ Leave(t, NoResult, NoResult, FALSE, TRUE)
    /\ UNCHANGED <<now, advances>>
    /\ UNCHANGED restOfCache

\* The wall clock moves.
ClockStep(step) ==
    /\ advances < MaxClockSteps
    /\ now' = now + step
    /\ advances' = advances + 1
    /\ UNCHANGED <<review_cache, cache_lock, cache_threads, cache_last>>
    /\ UNCHANGED restOfCache

InitCache == OrchInit /\ ReviewInit({1}) /\ OthersIdle

NextCache ==
    \/ \E t \in Threads, op \in CacheOps, key \in CacheKeys :
          \E value \in IF op = "set" THEN CacheValues ELSE {NoResult} :
             Call(t, op, key, value)
    \/ \E t \in Threads : GetCheck(t)
    \/ \E t \in Threads : GetRead(t)
    \/ \E t \in Threads : GetDel(t)
    \/ \E t \in Threads : SetStore(t)
    \/ \E t \in Threads : RemoveCheck(t)
    \/ \E t \in Threads : RemoveDel(t)
    \/ \E t \in Threads : Clear(t)
    \/ \E step \in ClockSteps : ClockStep(step)

SpecCache == InitCache /\ [][NextCache]_vars

\* ------------------------------------------- repeated call, warm caches
\* Texts _generate_ai_recommendation of the price tracker can return: an
\* answer of the LLM (temperature 0.7) or, on timeout or error, the
\* rule-based sentence.
PriceAnswers == {"llm text", "rule-based text"}

\* Texts of the buy-plan LLM (temperature 0.7).
BuyPlanAnswers == {"llm text a", "llm text b"}

\* random.uniform(-0.05, 0.05) of the mock price chart, in percent.
MockVariations == {-5, 5}

\* price_data['chart_data'] set by _enrich_products: the rows of the price
\* history where there are some, else mock prices around the current
\* price.
ChartData(has_history, variation) ==
    IF has_history THEN [source |-> "history", variation |-> 0]
    ELSE [source |-> "mock", variation |-> variation]

\* The analysis blocks of one response over warm caches: the review block
\* and the comparison come from review_cache and comparison_cache, the
\* price analysis and the buy plan are computed by every call.
WarmResponse(price_ai, variation, plan_ai) ==
    [products |->
        [p \in ProductIds |->
            [review |-> "cached analysis",
             ai_recommendation |-> price_ai[p],
             chart_data |-> ChartData(rp_history[p], variation[p])]],
     comparison |-> "cached comparison",
     buy_plan |-> plan_ai]

\* One orchestrate_recommendation call, from entry to return.
RepeatCall(price_ai, variation, plan_ai) ==
    /\ rp_calls < 2
    /\ rp_calls' = rp_calls + 1
    /\ IF rp_calls = 0
       THEN /\ rp_first' = WarmResponse(price_ai, variation, plan_ai)
            /\ UNCHANGED rp_second
       ELSE /\ rp_second' = WarmResponse(price_ai, variation, plan_ai)
            /\ UNCHANGED rp_first
    /\ UNCHANGED rp_history
    /\ UNCHANGED restOfRepeat

InitRepeat ==
    /\ OrchInit /\ ReviewInit({1}) /\ ThreadInit /\ NoCompare /\ LaterIdle
    /\ RepeatInit([ProductIds -> BOOLEAN])

NextRepeat ==
    \E price_ai \in [ProductIds -> PriceAnswers],
       variation \in [ProductIds -> MockVariations],
       plan_ai \in BuyPlanAnswers :
          RepeatCall(price_ai, variation, plan_ai)

SpecRepeat == InitRepeat /\ [][NextRepeat]_vars

\* --------------------------------------------------------- comparison
\* An ID no row of the products table has.
AbsentId == MaxProducts + 1

Prices == {1000, 2000}
ProductRatings == {3, 4}
ReviewCount == 10
Catalogs == [ProductIds -> [price : Prices, rating : ProductRatings]]

CompareStyles == {"detailed", "table"}

\* A list of MaxCompare + 1 IDs of the catalog.
TooLong == [i \in 1..MaxCompare + 1 |-> ((i - 1) % MaxProducts) + 1]

\* The product_ids arguments: every list without repetition over the
\* catalog, lists with the absent ID, a list with a repeated ID, and
\* TooLong.
CompareInputs ==
    DistinctSeqs(ProductIds, MaxProducts)
        \cup {<<AbsentId>>, <<1, AbsentId>>, <<AbsentId, 1>>, <<1, 1>>,
              TooLong}

\* The kind of a product_ids argument.
InputClass(ids) ==
    IF Len(ids) < 2 THEN "too_few"
    ELSE IF Len(ids) > MaxCompare THEN "too_many"
    ELSE IF \E i \in 1..Len(ids) : ids[i] \notin ProductIds THEN "absent"
    ELSE IF Cardinality(Range(ids)) < Len(ids) THEN "repeated"
    ELSE "valid"

\* sorted(product_ids)
RECURSIVE sorted(_)
sorted(s) ==
    IF s = <<>> THEN <<>>
    ELSE LET m == CHOOSE x \in Range(s) : \A y \in Range(s) : x <= y
             i == CHOOSE j \in 1..Len(s) : s[j] = m
         IN <<m>> \o sorted(SubSeq(s, 1, i - 1) \o SubSeq(s, i + 1, Len(s)))

\* cache_key = f"comparison_{'_'.join(map(str, sorted(product_ids)))}_{style}"
CompareKey(ids, style) == <<"comparison", sorted(ids), style>>

ProductDict(catalog, id) ==
    [id |-> id, price |-> catalog[id].price, rating |-> catalog[id].rating]

\* db.query(Product).filter(Product.id.in_(product_ids)).all(): the rows
\* whose id is in the list, in the order of the table (by id).
FetchProductsInInputOrder(catalog, ids) ==
    LET present == SelectSeq(ids, LAMBDA x : x \in DOMAIN catalog)
    IN [i \in 1..Len(present) |-> ProductDict(catalog, present[i])]
get_products_for_comparison(catalog, ids) ==
    LET found == Range(ids) \cap DOMAIN catalog
        present == [i \in 1..Cardinality(found) |->
                       CHOOSE x \in found :
                           Cardinality({y \in found : y < x}) = i - 1]
    IN [i \in 1..Len(present) |-> ProductDict(catalog, present[i])]

\* min(products, key=...) / max(products, key=...): the first of the
\* products with the least / greatest key.
FirstMin(keys) ==
    CHOOSE i \in 1..Len(keys) :
        /\ \A j \in 1..Len(keys) : keys[i] <= keys[j]
        /\ \A j \in 1..i - 1 : keys[j] > keys[i]
FirstMax(keys) ==
    CHOOSE i \in 1..Len(keys) :
        /\ \A j \in 1..Len(keys) : keys[i] >= keys[j]
        /\ \A j \in 1..i - 1 : keys[j] < keys[i]

\* (rating * review_count) / (price / 1000); exact for the prices of Prices.
ValueScore(product) == (product.rating * ReviewCount * 1000) \div product.price

PriceKeys(prods) == [i \in 1..Len(prods) |-> prods[i].price]
RatingKeys(prods) == [i \in 1..Len(prods) |-> prods[i].rating]
ScoreKeys(prods) == [i \in 1..Len(prods) |-> ValueScore(prods[i])]

\* comparison_tools.calculate_differences
calculate_differences(prods) ==
    [cheapest |-> prods[FirstMin(PriceKeys(prods))].price,
     most_expensive |-> prods[FirstMax(PriceKeys(prods))].price,
     cheapest_product |-> prods[FirstMin(PriceKeys(prods))].id,
     expensive_product |-> prods[FirstMax(PriceKeys(prods))].id,
     best_product |-> prods[FirstMax(RatingKeys(prods))].id,
     worst_product |-> prods[FirstMin(RatingKeys(prods))].id,
     product_count |-> Len(prods)]

\* comparison_tools.determine_winners
determine_winners(prods) ==
    [best_price |-> prods[FirstMin(PriceKeys(prods))].id,
     best_rating |-> prods[FirstMax(RatingKeys(prods))].id,
     best_overall |-> prods[FirstMax(ScoreKeys(prods))].id]

CompareSuccess(prods, style, ai_analysis) ==
    [success |-> TRUE, error |-> "", products |-> prods,
     differences |-> calculate_differences(prods),
     winners |-> determine_winners(prods),
     comparison_output |-> IF style = "table" THEN "table" ELSE "",
     ai_analysis |-> ai_analysis, comparison_style |-> style,
     isNone |-> FALSE]

\* len(products) < len(product_ids)
NotAllFoundNever(prods, ids) == FALSE
NotAllFound(prods, ids) == Len(prods) < Len(ids)

\* What the claim on permutations compares.
CompareCore(result) ==
    [products |-> result.products, differences |-> result.differences,
     winners |-> result.winners]

\* compare_products from its entry to the await of the LLM call: the cache
\* lookup, the validation of the list, the fetch of the products.  A
\* behaviour is a first call, a wait and a second call.
CompareStart(ids, style) ==
    /\ cp_pc = "idle"
    /\ cp_calls < 2
    /\ cp_calls' = cp_calls + 1
    /\ cp_key' = CompareKey(ids, style)
    /\ cp_class' = InputClass(ids)
    /\ cp_permuted' = /\ cp_key' \in DOMAIN cp_first
                      /\ cp_first[cp_key'].ids # ids
    /\ cp_before' = cp_cache
    /\ LET g == CacheGet(cp_cache, cp_key', cp_now, CompareTTL)
           prods == get_products_for_comparison(cp_catalog, ids)
       IN /\ cp_cache' = g.cache
          /\ IF g.hit
             THEN /\ cp_result' = g.value
                  /\ cp_outcome' = "hit"
                  /\ UNCHANGED <<cp_pc, cp_ids>>
             ELSE IF Len(ids) < 2
             THEN /\ cp_result' =
                        CompareFailure("Need at least 2 products to compare")
                  /\ cp_outcome' = "too_few"
                  /\ UNCHANGED <<cp_pc, cp_ids>>
             ELSE IF Len(ids) > MaxCompare
             THEN /\ cp_result' = CompareFailure(
                        "Maximum 5 products can be compared at once")
                  /\ cp_outcome' = "too_many"
                  /\ UNCHANGED <<cp_pc, cp_ids>>
             ELSE IF NotAllFound(prods, ids)
             THEN /\ cp_result' = CompareFailure("Only found")
                  /\ cp_outcome' = "not_found"
                  /\ UNCHANGED <<cp_pc, cp_ids>>
             ELSE /\ cp_pc' = "llm"
                  /\ cp_ids' = ids
                  /\ cp_result' = NoComparison
                  /\ cp_outcome' = "none"
    /\ UNCHANGED <<cp_catalog, cp_now, cp_waits, cp_first>>
    /\ UNCHANGED restOfCompare

\* _generate_ai_comparison returned, with the answer of the LLM or with
\* the rule-based text: build the result, cache it, return it.
CompareFinish(ai_analysis) ==
    /\ cp_pc = "llm"
    /\ cp_pc' = "idle"
    /\ cp_ids' = <<>>
    /\ cp_result' = CompareSuccess(
           get_products_for_comparison(cp_catalog, cp_ids), cp_key[3],
           ai_analysis)
    /\ cp_cache' = CacheSet(cp_cache, cp_key, cp_result', cp_now)
    /\ cp_outcome' = "computed"
    /\ cp_first' =
          IF cp_key \in DOMAIN cp_first THEN cp_first
          ELSE [k \in DOMAIN cp_first \cup {cp_key} |->
                   IF k \in DOMAIN cp_first THEN cp_first[k]
                   ELSE [core |-> CompareCore(cp_result'), ids |-> cp_ids]]
    /\ UNCHANGED <<cp_catalog, cp_before, cp_now, cp_calls, cp_waits, cp_key,
                   cp_class, cp_permuted>>
    /\ UNCHANGED restOfCompare

\* Time passes between two calls.
CompareWait(step) ==
    /\ cp_pc = "idle"
    /\ cp_calls = 1
    /\ cp_waits = 0
    /\ cp_waits' = cp_waits + 1
    /\ cp_now' = cp_now + step
    /\ UNCHANGED <<cp_catalog, cp_cache, cp_before, cp_calls, cp_pc, cp_ids,
                   cp_key, cp_class, cp_permuted, cp_outcome, cp_result,
                   cp_first>>
    /\ UNCHANGED restOfCompare

InitCompare ==
    /\ OrchInit /\ ReviewInit({1}) /\ ThreadInit /\ NoRepeat /\ LaterIdle
    /\ CompareInit(Catalogs, CompareStyles)

NextCompare ==
    \/ \E ids \in CompareInputs : CompareStart(ids, cp_key[3])
    \/ \E ai_analysis \in {"llm text", "rule-based text"} :
          CompareFinish(ai_analysis)
    \/ \E step \in {CompareTTL - 1, CompareTTL} : CompareWait(step)

SpecCompare == InitCompare /\ [][NextCompare]_vars

\* -------------------------------------------------------------- search
\* response['response'].strip(), as a list of tokens: a code fence, the
\* word json, or a body.
\* The token of three backquotes.
Fence == "fence"
ObjectFull == "{category, keywords, price_range}"
ObjectEmpty == "{}"
JsonArray == "[1, 2]"
NotJson == "Sure, here is the JSON"

LLMTexts ==
    {<<ObjectFull>>, <<ObjectEmpty>>, <<JsonArray>>, <<NotJson>>,
     <<Fence, "json", ObjectFull, Fence>>, <<Fence, ObjectFull, Fence>>,
     <<Fence>>}

\* What the intent LLM call can do: raise, or answer with a text.
LLMOutcomes ==
    {[kind |-> "exception", text |-> <<>>]}
        \cup {[kind |-> "text", text |-> t] : t \in LLMTexts}

\* response_text.split(fence)[1]: the tokens between the first fence and
\* the next one (or the end).
RECURSIVE UpToFence(_)
UpToFence(tokens) ==
    IF tokens = <<>> \/ Head(tokens) = Fence THEN <<>>
    ELSE <<Head(tokens)>> \o UpToFence(Tail(tokens))

\* The removal of the markdown code block.
StripFence(text) ==
    IF text # <<>> /\ Head(text) = Fence
    THEN LET inner == UpToFence(Tail(text))
         IN IF inner # <<>> /\ Head(inner) = "json" THEN Tail(inner)
            ELSE inner
    ELSE text

\* json.loads: the value of a text that is one JSON value, else an error.
JsonLoads(text) ==
    IF text = <<ObjectFull>>
    THEN [type |-> "dict", keywords |-> "llm keywords",
          category |-> "Headphones"]
    ELSE IF text = <<ObjectEmpty>>
    THEN [type |-> "dict", keywords |-> "", category |-> ""]
    ELSE IF text = <<JsonArray>>
    THEN [type |-> "list", keywords |-> "", category |-> ""]
    ELSE [type |-> "error", keywords |-> "", category |-> ""]

\* _parse_search_intent: the fallback when the call or json.loads raised,
\* else whatever json.loads returned.
_parse_search_intent(outcome) ==
    IF outcome.kind = "exception" THEN FallbackIntent
    ELSE LET value == JsonLoads(StripFence(outcome.text))
         IN IF value.type = "error" THEN FallbackIntent ELSE value

\* similarity_score = round(1 - distance, 4) for a cosine distance in
\* [0, 2], in hundredths.
Similarities == {-20, 50, 100}

\* semantic_results: distinct products by decreasing similarity.
SemanticLegs ==
    {leg \in UNION {[1..n -> [product_id : ProductIds,
                              similarity_score : Similarities]] :
                       n \in 0..MaxProducts} :
        /\ \A i, j \in 1..Len(leg) :
              i # j => leg[i].product_id # leg[j].product_id
        /\ \A i \in 1..Len(leg) - 1 :
              leg[i].similarity_score >= leg[i + 1].similarity_score}

\* traditional_results: distinct products in the order of the query.
TraditionalLegs == DistinctSeqs(ProductIds, MaxProducts)

\* The dict combined of _combine_and_rank, as the list of its values in
\* insertion order, with final_score in thousandths.
Combined(semantic, traditional) ==
    LET first == [i \in 1..Len(semantic) |->
                    [product_id |-> semantic[i].product_id,
                     final_score |->
                        (semantic[i].similarity_score * SemanticWeight) \div 100
                        + IF semantic[i].product_id \in Range(traditional)
                          THEN TraditionalWeight ELSE 0]]
        seen == {semantic[i].product_id : i \in 1..Len(semantic)}
        rest == SelectSeq(traditional, LAMBDA id : id \notin seen)
    IN first \o [i \in 1..Len(rest) |->
                   [product_id |-> rest[i],
                    final_score |-> TraditionalWeight]]

\* sorted(..., key=final_score, reverse=True): stable, so equal scores keep
\* their order.
RECURSIVE InsertByScore(_, _)
InsertByScore(x, ranked) ==
    IF ranked = <<>> THEN <<x>>
    ELSE IF Head(ranked).final_score >= x.final_score
         THEN <<Head(ranked)>> \o InsertByScore(x, Tail(ranked))
         ELSE <<x>> \o ranked

RECURSIVE SortByScore(_)
SortByScore(values) ==
    IF values = <<>> THEN <<>>
    ELSE InsertByScore(values[Len(values)],
                       SortByScore(SubSeq(values, 1, Len(values) - 1)))

_combine_and_rank(semantic, traditional, limit) ==
    Take(SortByScore(Combined(semantic, traditional)), limit)

\* search_products is called.
SearchBegin(limit) ==
    /\ sr_pc = "start"
    /\ sr_pc' = "intent"
    /\ sr_limit' = limit
    /\ UNCHANGED <<sr_elapsed, sr_llm, sr_intent, sr_vector, sr_semantic,
                   sr_traditional, sr_result>>
    /\ UNCHANGED restOfSearch

\* self.client.generate has not returned yet: the call has no timeout and
\* the thread stays in it.
IntentWait ==
    /\ sr_pc = "intent"
    /\ sr_elapsed < MaxIntentWait
    /\ sr_elapsed' = sr_elapsed + 1
    /\ UNCHANGED <<sr_pc, sr_limit, sr_llm, sr_intent, sr_vector, sr_semantic,
                   sr_traditional, sr_result>>
    /\ UNCHANGED restOfSearch

\* self.client.generate returned or raised: the intent is parsed and read
\* (intent.get('category'), intent.get('price_range')).  A value that is
\* no dict has no get: the AttributeError ends the search in the outer
\* except.
IntentAnswer(outcome) ==
    /\ sr_pc = "intent"
    /\ sr_llm' = IF outcome.kind = "exception" THEN "exception"
                 ELSE IF _parse_search_intent(outcome) = FallbackIntent
                 THEN "malformed"
                 ELSE IF _parse_search_intent(outcome).type # "dict"
                 THEN "non_object" ELSE "object"
    /\ sr_intent' = _parse_search_intent(outcome)
    /\ sr_elapsed' = 0
    /\ IF sr_intent'.type = "dict"
       THEN /\ sr_pc' = "semantic"
            /\ UNCHANGED sr_result
       ELSE /\ sr_pc' = "done"
            /\ sr_result' = SearchFailure("intent has no attribute get")
    /\ UNCHANGED <<sr_limit, sr_vector, sr_semantic, sr_traditional>>
    /\ UNCHANGED restOfSearch

\* self.embedder.search_similar_products with n_results = limit * 2: the
\* leg, or an exception of the embedding model or of the collection, which
\* the outer except turns into the failure dict.
SemanticSearch(ok, leg) ==
    /\ sr_pc = "semantic"
    /\ Len(leg) <= 2 * sr_limit
    /\ IF ok
       THEN /\ sr_vector' = "ok"
            /\ sr_semantic' = leg
            /\ sr_pc' = "traditional"
            /\ UNCHANGED sr_result
       ELSE /\ sr_vector' = "fail"
            /\ sr_pc' = "done"
            /\ sr_result' = SearchFailure("vector index")
            /\ UNCHANGED sr_semantic
    /\ UNCHANGED <<sr_elapsed, sr_limit, sr_llm, sr_intent, sr_traditional>>
    /\ UNCHANGED restOfSearch

\* _traditional_search with limit * 2, _combine_and_rank, _enrich_results
\* (which keeps the order) and the return; a failing catalog query ends in
\* the outer except.
TraditionalSearch(ok, leg) ==
    /\ sr_pc = "traditional"
    /\ Len(leg) <= 2 * sr_limit
    /\ sr_pc' = "done"
    /\ IF ok
       THEN /\ sr_traditional' = leg
            /\ sr_result' = SearchSuccess(
                   _combine_and_rank(sr_semantic, leg, sr_limit))
       ELSE /\ sr_result' = SearchFailure("catalog")
            /\ UNCHANGED sr_traditional
    /\ UNCHANGED <<sr_elapsed, sr_limit, sr_llm, sr_intent, sr_vector,
                   sr_semantic>>
    /\ UNCHANGED restOfSearch

InitSearch == OrchInit /\ ReviewInit({1}) /\ OthersIdle

NextSearch ==
    \/ \E limit \in 1..MaxProducts : SearchBegin(limit)
    \/ IntentWait
    \/ \E outcome \in LLMOutcomes : IntentAnswer(outcome)
    \/ \E ok \in BOOLEAN :
          \E leg \in IF ok THEN SemanticLegs ELSE {<<>>} :
             SemanticSearch(ok, leg)
    \/ \E ok \in BOOLEAN :
          \E leg \in IF ok THEN TraditionalLegs ELSE {<<>>} :
             TraditionalSearch(ok, leg)

SpecSearch == InitSearch /\ [][NextSearch]_vars

\* --------------------------------------------------------------- price
\* Prices of a product, in rupees.
PricePoints == {1900, 2000, 2100, 2200}

\* Price histories, newest row first: whole weeks at one price each, with
\* or without one newer row.
WeekSeqs == UNION {[1..n -> PricePoints] : n \in 0..MaxWeeks}
Flatten(weeks) ==
    [i \in 1..(TrendWindow * Len(weeks)) |->
        weeks[((i - 1) \div TrendWindow) + 1]]
PriceHistories ==
    {newest \o Flatten(weeks) :
        newest \in {<<>>} \cup {<<p>> : p \in PricePoints},
        weeks \in WeekSeqs}

SeqMin(s) == CHOOSE x \in Range(s) : \A y \in Range(s) : x <= y
SeqMax(s) == CHOOSE x \in Range(s) : \A y \in Range(s) : x >= y

\* The trend of calculate_price_trend: the mean of prices[:7] against the
\* mean of prices[7:14], both of seven rows.
Trend(prices) ==
    IF Len(prices) >= TrendPoints
    THEN LET recent == SumSeq(SubSeq(prices, 1, TrendWindow))
             older == SumSeq(SubSeq(prices, TrendWindow + 1, TrendPoints))
         IN IF recent * 100 < older * 95 THEN "decreasing"
            ELSE IF recent * 100 > older * 105 THEN "increasing"
            ELSE "stable"
    ELSE "insufficient_data"

\* The buy/wait recommendation of calculate_price_trend.
RecommendationBelowOnly(current, prices, trend) ==
    IF current * 100 < SeqMin(prices) * 105 THEN "buy_now"
    ELSE IF trend = "decreasing" THEN "wait"
    ELSE IF current * Len(prices) >= SumSeq(prices) THEN "wait"
    ELSE "good_time"
Recommendation(current, prices, trend) ==
    IF current * 100 <= SeqMin(prices) * 105 THEN "buy_now"
    ELSE IF trend = "decreasing" THEN "wait"
    ELSE IF current * Len(prices) >= SumSeq(prices) THEN "wait"
    ELSE "good_time"

\* calculate_price_trend for the rows of the last 30 days and the price of
\* the products table.
calculate_price_trend(history, current) ==
    IF history = <<>>
    THEN [NoTrend EXCEPT !.trend = "unknown", !.recommendation = "wait"]
    ELSE [current_price |-> current,
          min_price |-> SeqMin(history),
          max_price |-> SeqMax(history),
          trend |-> Trend(history),
          recommendation |-> Recommendation(current, history, Trend(history)),
          data_points |-> Len(history),
          has_chart |-> TRUE]

\* The dict analyze_price returns.
analyze_price(history, current) ==
    [success |-> TRUE, has_trend |-> TRUE,
     price_data |-> calculate_price_trend(history, current),
     history |-> Take(history, HistoryRows),
     recommendation |-> calculate_price_trend(history, current).recommendation]

\* The chart of _enrich_products: the returned rows of the history, else
\* the chart of the trend, else MockDays mock prices around the price of
\* the product, each off by the variation (in percent).
EnrichedChart(analysis, current, variation) ==
    IF analysis.history # <<>>
    THEN [labels |-> Len(analysis.history), data |-> analysis.history]
    ELSE IF analysis.has_trend /\ analysis.price_data.has_chart
    THEN [labels |-> analysis.price_data.data_points, data |-> <<>>]
    ELSE IF current > 0
    THEN [labels |-> MockDays,
          data |-> [i \in 1..MockDays |->
                       (current * (100 + variation)) \div 100]]
    ELSE NoChart

\* price_data['data_points'] after _enrich_products; 0 stands for a dict
\* without the key, which the formatter reads as 0.
EnrichedDataPoints(analysis, current) ==
    IF analysis.history # <<>> THEN Len(analysis.history)
    ELSE IF analysis.has_trend /\ analysis.price_data.has_chart THEN 0
    ELSE IF current > 0 THEN MockDays
    ELSE 0

\* The price_tracking block of _format_user_friendly_response.
PriceBlock(analysis, current, variation) ==
    [available |-> analysis.success,
     recommendation |-> IF analysis.success THEN analysis.recommendation
                        ELSE "N/A",
     chart_data |-> EnrichedChart(analysis, current, variation),
     history_days |-> EnrichedDataPoints(analysis, current)]

\* _track_all_prices for the product: analyze_price returns, or it fails or
\* is cut off and the slot holds the failure dict.
AnalyzePrice(history, current, ok) ==
    /\ pt_pc = "start"
    /\ pt_pc' = "analyzed"
    /\ pt_history' = history
    /\ pt_current' = current
    /\ pt_analysis' = IF ok THEN analyze_price(history, current)
                     ELSE NoAnalysis
    /\ UNCHANGED pt_block
    /\ UNCHANGED restOfPrice

\* _enrich_products and _format_user_friendly_response for the product.
EnrichPrice(variation) ==
    /\ pt_pc = "analyzed"
    /\ pt_pc' = "done"
    /\ pt_block' = PriceBlock(pt_analysis, pt_current, variation)
    /\ UNCHANGED <<pt_history, pt_current, pt_analysis>>
    /\ UNCHANGED restOfPrice

InitPrice == OrchInit /\ ReviewInit({1}) /\ OthersIdle

NextPrice ==
    \/ \E history \in PriceHistories, current \in PricePoints, ok \in BOOLEAN :
          AnalyzePrice(history, current, ok)
    \/ \E variation \in MockVariations : EnrichPrice(variation)

SpecPrice == InitPrice /\ [][NextPrice]_vars

\* ------------------------------------------------------------ discount
\* Prices of catalog rows; an MRP of 0 stands for a row without MRP.
CatalogPrices == {250 * k : k \in 1..MaxPriceSteps}
CatalogMrps == {0} \cup CatalogPrices

\* round(a / b, 0) for b > 0.  No quotient of the catalog prices lies on a
\* rounding tie.
RoundDiv(a, b) == (2 * a + b) \div (2 * b)

\* dict.get(key, default).
DictGet(d, key, default) == IF key \in DOMAIN d THEN d[key] ELSE default

\* discount_percent of _enrich_results, in tenths of a percent:
\* round((mrp - price) / mrp * 100, 1) if product.mrp else 0.
SearchDiscount(price, mrp) ==
    IF mrp # 0 THEN RoundDiv((mrp - price) * 1000, mrp) ELSE 0

\* The product dict _enrich_results appends (the keys of the price).
EnrichedProduct(price, mrp) ==
    [k \in {"price", "mrp", "discount_percent"} |->
        IF k = "price" THEN price
        ELSE IF k = "mrp" THEN (IF mrp # 0 THEN mrp ELSE price)
        ELSE SearchDiscount(price, mrp)]

\* The pricing block of _format_user_friendly_response.
PricingBlock(product) ==
    [k \in {"current_price", "mrp", "discount_percent", "you_save"} |->
        IF k = "current_price" THEN product["price"]
        ELSE IF k = "mrp" THEN DictGet(product, "mrp", product["price"])
        ELSE IF k = "discount_percent" THEN DictGet(product, "discount_pct", 0)
        ELSE DictGet(product, "mrp", product["price"]) - product["price"]]

\* search_products returns the product.
SearchEnrich(price, mrp) ==
    /\ dc_pc = "start"
    /\ dc_pc' = "searched"
    /\ dc_price' = price
    /\ dc_mrp' = mrp
    /\ dc_product' = EnrichedProduct(price, mrp)
    /\ UNCHANGED dc_pricing
    /\ UNCHANGED restOfDiscount

\* orchestrate_recommendation formats the product.
FormatPricing ==
    /\ dc_pc = "searched"
    /\ dc_pc' = "done"
    /\ dc_pricing' = PricingBlock(dc_product)
    /\ UNCHANGED <<dc_price, dc_mrp, dc_product>>
    /\ UNCHANGED restOfDiscount

InitDiscount == OrchInit /\ ReviewInit({1}) /\ OthersIdle

NextDiscount ==
    \/ \E price \in CatalogPrices, mrp \in CatalogMrps : SearchEnrich(price, mrp)
    \/ FormatPricing

SpecDiscount == InitDiscount /\ [][NextDiscount]_vars

\* ------------------------------------------------------------ buy plan
\* Money is in paise (hundredths of a rupee) wherever the code rounds to
\* two decimals.
BuyPrices == {1000, 2000, 2500}

\* The default tenures of calculate_emi_plans and calculate_no_cost_emi.
EmiTenures == <<3, 6, 9, 12, 18, 24>>
NoCostTenures == <<3, 6, 9, 12>>

\* interest_rates.get(months, 15.0), in percent a year.
InterestRate(months) ==
    IF months = 3 THEN 12 ELSE IF months = 6 THEN 13
    ELSE IF months = 9 THEN 14 ELSE IF months = 12 THEN 15
    ELSE IF months = 18 THEN 16 ELSE IF months = 24 THEN 17 ELSE 15

\* (1 + monthly_rate) ** months in millionths, monthly_rate being
\* annual_rate / 12 / 100.
RECURSIVE Compound(_, _)
Compound(rate, months) ==
    IF months = 0 THEN 1000000
    ELSE (Compound(rate, months - 1) * (1200 + rate)) \div 1200

\* emi_amount = price * r * (1 + r)^n / ((1 + r)^n - 1), rounded to paise.
RegularEmi(price, months) ==
    LET rate == InterestRate(months)
        growth == Compound(rate, months)
        ratio == (growth * 1000) \div (growth - 1000000)
    IN (price * rate * ratio + 6000) \div 12000

\* calculate_emi_plans(price).
calculate_emi_plans(price) ==
    [i \in 1..Len(EmiTenures) |->
        [tenure_months |-> EmiTenures[i],
         emi_per_month |-> RegularEmi(price, EmiTenures[i]),
         total_interest |->
            RegularEmi(price, EmiTenures[i]) * EmiTenures[i] - price * 100,
         plan_type |-> "regular_emi"]]

\* calculate_no_cost_emi(price): emi_per_month = round(price / months, 2).
calculate_no_cost_emi(price) ==
    [i \in 1..Len(NoCostTenures) |->
        [tenure_months |-> NoCostTenures[i],
         emi_per_month |-> RoundDiv(price * 100, NoCostTenures[i]),
         total_interest |-> 0,
         plan_type |-> "no_cost_emi"]]

\* The offers get_card_offers returns; an amount of 0 stands for None.
\* emi_amount is None in every offer.
CardOffer(offer_type, discount_amount, discount_percent, cashback, months) ==
    [offer_type |-> offer_type, discount_amount |-> discount_amount,
     discount_percent |-> discount_percent, cashback_amount |-> cashback,
     emi_months |-> months, emi_amount |-> 0]
CardOffers ==
    {CardOffer("instant_discount", 10000, 0, 0, 0),
     CardOffer("instant_discount", 0, 10, 0, 0),
     CardOffer("instant_discount", 0, 0, 0, 0),
     CardOffer("cashback", 0, 0, 10000, 0),
     CardOffer("cashback", 0, 0, 20000, 0),
     CardOffer("cashback", 0, 0, 0, 0),
     CardOffer("no_cost_emi", 0, 0, 0, 6)}
OfferLists == UNION {[1..n -> CardOffers] : n \in 0..MaxOffers}

\* additional_savings of an instant discount, in paise.
InstantSavings(price, offer) ==
    IF offer.discount_amount # 0 THEN offer.discount_amount
    ELSE IF offer.discount_percent # 0 THEN price * offer.discount_percent
    ELSE 0

\* The payment options of calculate_total_savings before the sort: the full
\* price, then one option for each offer that yields one.
RECURSIVE OfferOptions(_, _, _)
OfferOptions(price, base_discount, offers) ==
    IF offers = <<>> THEN <<>>
    ELSE LET offer == Head(offers)
             rest == OfferOptions(price, base_discount, Tail(offers))
         IN IF offer.offer_type = "instant_discount"
            THEN <<[kind |-> "instant", payment_type |-> "one_time",
                    total_savings |->
                       base_discount + InstantSavings(price, offer),
                    emi_per_month |-> 0, tenure_months |-> 0]>> \o rest
            ELSE IF offer.offer_type = "cashback"
            THEN <<[kind |-> "cashback", payment_type |-> "cashback",
                    total_savings |-> base_discount + offer.cashback_amount,
                    emi_per_month |-> 0, tenure_months |-> 0]>> \o rest
            ELSE IF offer.emi_months # 0 /\ offer.emi_amount # 0
            THEN <<[kind |-> "emi", payment_type |-> "emi",
                    total_savings |-> base_discount,
                    emi_per_month |-> offer.emi_amount,
                    tenure_months |-> offer.emi_months]>> \o rest
            ELSE rest

\* payment_options.sort(key=total_savings, reverse=True): stable.
RECURSIVE InsertBySavings(_, _)
InsertBySavings(x, sortedOptions) ==
    IF sortedOptions = <<>> THEN <<x>>
    ELSE IF Head(sortedOptions).total_savings >= x.total_savings
         THEN <<Head(sortedOptions)>> \o InsertBySavings(x, Tail(sortedOptions))
         ELSE <<x>> \o sortedOptions

RECURSIVE SortBySavings(_)
SortBySavings(options) ==
    IF options = <<>> THEN <<>>
    ELSE InsertBySavings(options[Len(options)],
                         SortBySavings(SubSeq(options, 1, Len(options) - 1)))

\* calculate_total_savings(price, mrp, offers), mrp being the price when
\* the product has none.
calculate_total_savings(price, mrp, offers) ==
    LET base_discount == (mrp - price) * 100
    IN SortBySavings(
          <<[kind |-> "full", payment_type |-> "one_time",
             total_savings |-> base_discount,
             emi_per_month |-> 0, tenure_months |-> 0]>>
          \o OfferOptions(price, base_discount, offers))

\* The tests of the loop over payment_options: whether an option is of
\* the kind, and whether it is strictly better than the kept one.
Wanted(option, kind) ==
    IF kind = "instant" THEN option.kind = "instant"
    ELSE option.payment_type = kind
Better(option, best, kind) ==
    IF kind = "emi" THEN option.emi_per_month < best.emi_per_month
    ELSE option.total_savings > best.total_savings

\* The loop that keeps the best option of a kind: an option replaces the
\* kept one only when it is strictly better.
RECURSIVE BestOption(_, _, _)
BestOption(options, kind, best) ==
    IF options = <<>> THEN best
    ELSE BestOption(Tail(options), kind,
            IF Wanted(Head(options), kind)
               /\ (best = NoOption \/ Better(Head(options), best, kind))
            THEN Head(options) ELSE best)

\* compare_payment_options for a product that exists, then the purchase
\* plan create_purchase_plan builds from it.
purchase_plan(price, mrp, offers) ==
    LET options == calculate_total_savings(
                      price, IF mrp # 0 THEN mrp ELSE price, offers)
    IN [success |-> TRUE,
        payment_options |-> options,
        regular_emi_plans |-> calculate_emi_plans(price),
        no_cost_emi_plans |-> calculate_no_cost_emi(price),
        best_instant_savings |-> BestOption(options, "instant", NoOption),
        best_cashback |-> BestOption(options, "cashback", NoOption),
        best_emi |-> BestOption(options, "emi", NoOption)]

\* create_purchase_plan reads the product and its offers.
PlanStart(price, mrp, offers) ==
    /\ bp_pc = "start"
    /\ bp_pc' = "comparing"
    /\ bp_price' = price
    /\ bp_mrp' = mrp
    /\ bp_offers' = offers
    /\ UNCHANGED bp_plan
    /\ UNCHANGED restOfBuyPlan

\* compare_payment_options returns and the plan is built.
PlanReturn ==
    /\ bp_pc = "comparing"
    /\ bp_pc' = "done"
    /\ bp_plan' = purchase_plan(bp_price, bp_mrp, bp_offers)
    /\ UNCHANGED <<bp_price, bp_mrp, bp_offers>>
    /\ UNCHANGED restOfBuyPlan

InitBuyPlan == OrchInit /\ ReviewInit({1}) /\ OthersIdle

NextBuyPlan ==
    \/ \E price \in BuyPrices, offers \in OfferLists :
          \E mrp \in {0, price + 500} : PlanStart(price, mrp, offers)
    \/ PlanReturn

SpecBuyPlan == InitBuyPlan /\ [][NextBuyPlan]_vars

\* --------------------------------------------------------- trust score
\* Review counts around the thresholds of the sample size.
ReviewTotals == {1, 10, 20, 21, 50, 51}

\* The statistics of a product that has reviews: the total, the verified
\* purchases, the reviews of five stars and of one star, with shares
\* around the thresholds of the score.
StatsOfTotal(t) ==
    {[total_reviews |-> t, verified_purchases |-> v, five_star |-> f,
      one_star |-> o] :
        v \in {0, t \div 2, t},
        f \in {0, (7 * t) \div 10, (9 * t) \div 10, t},
        o \in {0, (3 * t) \div 10, t}}
StatsOfProduct ==
    {st \in UNION {StatsOfTotal(t) : t \in ReviewTotals} :
        st.five_star + st.one_star <= st.total_reviews}

\* min(max(score, 0), 1) for a score of denominator den.
NoClamp(num, den) == num
Clamp(num, den) == Min(IF num >= 0 THEN num ELSE 0, den)

\* _calculate_trust_score, as a fraction of denominator 1000 x total.
_calculate_trust_score(stats) ==
    LET t == stats.total_reviews
        base == 500 * t + 300 * stats.verified_purchases
        balance == IF 10 * stats.five_star < 7 * t
                      /\ 10 * stats.one_star < 3 * t THEN 200 * t
                   ELSE IF 10 * stats.five_star > 9 * t THEN -100 * t
                   ELSE 0
        size == IF t > 50 THEN 100 * t ELSE IF t > 20 THEN 50 * t ELSE 0
    IN [num |-> Clamp(base + balance + size, 1000 * t), den |-> 1000 * t]

\* analyze_reviews has read the reviews and the statistics of a product
\* that has reviews.
TrustStart(stats) ==
    /\ ts_pc = "start"
    /\ ts_pc' = "llm"
    /\ ts_stats' = stats
    /\ UNCHANGED <<ts_path, ts_score>>
    /\ UNCHANGED restOfTrust

\* The LLM answered, or it timed out: either path computes the trust score
\* and builds the result.
TrustResult(path) ==
    /\ ts_pc = "llm"
    /\ ts_pc' = "done"
    /\ ts_path' = path
    /\ ts_score' = _calculate_trust_score(ts_stats)
    /\ UNCHANGED ts_stats
    /\ UNCHANGED restOfTrust

InitTrust == OrchInit /\ ReviewInit({1}) /\ OthersIdle

NextTrust ==
    \/ \E stats \in StatsOfProduct : TrustStart(stats)
    \/ \E path \in {"llm", "fallback"} : TrustResult(path)

SpecTrust == InitTrust /\ [][NextTrust]_vars

\* ------------------------------------------------------ parsed analysis
\* The lines of an LLM analysis, by what _parse_ai_response sees in them:
\* a line naming the sentiment (with one of the three words or with
\* another), a header of a section, a bullet, another non-empty line.
LineKinds ==
    {"sentiment_positive", "sentiment_negative", "sentiment_other",
     "pros", "cons", "summary", "bullet", "text"}
AnalysisTexts == UNION {[1..n -> LineKinds] : n \in 0..MaxLines}

\* One turn of the loop of _parse_ai_response, for line number n; pros and
\* cons hold the numbers of the lines they took.
ParseLine(st, line, n) ==
    IF line = "sentiment_positive" THEN [st EXCEPT !.sentiment = "Positive"]
    ELSE IF line = "sentiment_negative"
    THEN [st EXCEPT !.sentiment = "Negative"]
    ELSE IF line = "sentiment_other" THEN st
    ELSE IF line \in {"pros", "cons", "summary"}
    THEN [st EXCEPT !.section = line]
    ELSE IF line = "bullet"
    THEN IF st.section = "pros" /\ Len(st.pros) < 3
         THEN [st EXCEPT !.pros = Append(@, n)]
         ELSE IF st.section = "cons" /\ Len(st.cons) < 3
         THEN [st EXCEPT !.cons = Append(@, n)]
         ELSE st
    ELSE IF st.section = "summary"
    THEN [st EXCEPT !.summary = Append(@, n)]
    ELSE st

\* The state of the loop after the lines 1..n.
RECURSIVE ParseLines(_, _)
ParseLines(text, n) ==
    IF n = 0
    THEN [sentiment |-> "Neutral", pros |-> <<>>, cons |-> <<>>,
          summary |-> <<>>, section |-> "none"]
    ELSE ParseLine(ParseLines(text, n - 1), text[n], n)

\* The synthesized entry of an empty list ("Overall positive feedback from
\* customers", "Some minor issues reported", ...), as line number 0.
OrDefault(list) == IF list = <<>> THEN <<0>> ELSE list

\* _parse_ai_response(text): sentiment, pros[:3], cons[:3], summary.
_parse_ai_response(text) ==
    LET st == ParseLines(text, Len(text))
    IN [path |-> "llm",
        sentiment |-> st.sentiment,
        pros |-> Take(OrDefault(st.pros), 3),
        cons |-> Take(OrDefault(st.cons), 3),
        summary |-> st.summary]

\* The fallback of the timeout path: the sentiment of the average rating,
\* themes['positive'][:3] and themes['negative'][:2], each with its
\* default.
FallbackParse(average100, positive, negative) ==
    [path |-> "fallback",
     sentiment |-> FallbackSentiment(average100),
     pros |-> OrDefault(Take(positive, 3)),
     cons |-> OrDefault(Take(negative, 2)),
     summary |-> <<0>>]

\* The themes of one polarity extract_themes found.
ThemeLists == {[i \in 1..n |-> i] : n \in 0..MaxThemes}

\* The LLM answered: the result is built from its text.
ParseAnswer(text) ==
    /\ pr_pc = "start"
    /\ pr_pc' = "done"
    /\ pr_text' = text
    /\ pr_parsed' = _parse_ai_response(text)
    /\ UNCHANGED restOfParse

\* The LLM timed out: the result is built from the themes.
ParseTimeout(average100, positive, negative) ==
    /\ pr_pc = "start"
    /\ pr_pc' = "done"
    /\ pr_parsed' = FallbackParse(average100, positive, negative)
    /\ UNCHANGED pr_text
    /\ UNCHANGED restOfParse

InitParse == OrchInit /\ ReviewInit({1}) /\ OthersIdle

NextParse ==
    \/ \E text \in IF pr_pc = "start" THEN AnalysisTexts ELSE {} :
          ParseAnswer(text)
    \/ \E average100 \in {250, 300, 400}, positive \in ThemeLists,
          negative \in ThemeLists :
          ParseTimeout(average100, positive, negative)

SpecParse == InitParse /\ [][NextParse]_vars

\* ------------------------------------------------- the LLM worker threads
\* The agents that call the LLM through a one-thread executor under
\* asyncio.wait_for.
LLMAgents == {"review", "price", "comparator"}

\* The agent creates ThreadPoolExecutor(max_workers=1), submits _generate_sync
\* with loop.run_in_executor and awaits it under asyncio.wait_for: the
\* worker thread starts and blocks in ollama.generate.
GenerateStart(c, agent) ==
    /\ wk_call[c] = "idle"
    /\ \A d \in 1..(c - 1) : wk_call[d] # "idle"
    /\ wk_agent' = [wk_agent EXCEPT ![c] = agent]
    /\ wk_call' = [wk_call EXCEPT ![c] = "awaited"]
    /\ wk_thread' = [wk_thread EXCEPT ![c] = "running"]
    /\ wk_executor' = [wk_executor EXCEPT ![c] = "open"]
    /\ UNCHANGED restOfWorker

\* ollama.generate returns in the worker thread. While the agent still
\* awaits the call, wait_for returns the text and the agent runs
\* executor.shutdown(wait=False). After a timeout nobody reads the answer:
\* the thread ends, the executor was never shut down.
GenerateReturn(c) ==
    /\ wk_thread[c] = "running"
    /\ wk_thread' = [wk_thread EXCEPT ![c] = "exited"]
    /\ IF wk_call[c] = "awaited"
       THEN /\ wk_call' = [wk_call EXCEPT ![c] = "answered"]
            /\ wk_executor' = [wk_executor EXCEPT ![c] = "shutdown"]
       ELSE UNCHANGED <<wk_call, wk_executor>>
    /\ UNCHANGED wk_agent
    /\ UNCHANGED restOfWorker

\* The timeout of asyncio.wait_for expires: it cancels the asyncio future
\* of run_in_executor and raises TimeoutError; the agent takes its
\* rule-based fallback. A thread that is already running its work item is
\* not interrupted by the cancellation, and the except branch does not
\* reach executor.shutdown.
WaitForTimeout(c) ==
    /\ wk_call[c] = "awaited"
    /\ wk_call' = [wk_call EXCEPT ![c] = "fallback"]
    /\ UNCHANGED <<wk_agent, wk_thread, wk_executor>>
    /\ UNCHANGED restOfWorker

InitWorker == OrchInit /\ ReviewInit({1}) /\ OthersIdle

NextWorker ==
    \/ \E c \in 1..MaxCalls, agent \in LLMAgents : GenerateStart(c, agent)
    \/ \E c \in 1..MaxCalls : GenerateReturn(c)
    \/ \E c \in 1..MaxCalls : WaitForTimeout(c)

SpecWorker == InitWorker /\ [][NextWorker]_vars

\* ------------------------------------------- agent and orchestrator timeouts
\* The agent tasks the orchestrator wraps in asyncio.wait_for.
BudgetAgents == {"review", "price", "comparator", "buyplan"}

\* The timeout the orchestrator puts on the task of an agent.
TaskTimeoutOf(agent) ==
    CASE agent = "review" -> ReviewTimeout
      [] agent = "price" -> PriceTimeout
      [] agent = "comparator" -> CompareTimeout
      [] agent = "buyplan" -> BuyPlanTimeout

\* The agents that await their LLM call under asyncio.wait_for. The buy
\* plan agent calls self.client.chat directly, with no timeout.
HasLLMTimeout(agent) == agent \in {"review", "price", "comparator"}

\* The timeout an agent puts on its own LLM call.
LLMTimeoutOf(agent) ==
    CASE agent = "review" -> ReviewLLMTimeout
      [] agent = "price" -> PriceLLMTimeout
      [] agent = "comparator" -> CompareLLMTimeout

\* The event loop runs while the agent awaits: the synchronous chat call of
\* the buy plan agent keeps the loop's only thread until it returns.
LoopRuns(agent) == agent # "buyplan"

\* The agents that store their result in a cache (review_cache.set on the
\* fallback path, comparison_cache.set at the end of compare_products).
AgentCaches(agent) == agent \in {"review", "comparator"}

\* The orchestrator starts the agent task under asyncio.wait_for and the
\* agent reaches its LLM call (the time of the reads before it is taken
\* as zero).
BudgetStart(agent) ==
    /\ bg_pc = "start"
    /\ bg_agent' = agent
    /\ bg_pc' = "waiting"
    /\ UNCHANGED <<bg_clock, bg_cached>>
    /\ UNCHANGED restOfBudget

\* One second passes while the LLM has not answered. Time does not pass a
\* timer that the running event loop has to fire.
BudgetTick ==
    /\ bg_pc = "waiting"
    /\ bg_clock < Horizon
    /\ LoopRuns(bg_agent) => bg_clock < TaskTimeoutOf(bg_agent)
    /\ LoopRuns(bg_agent) /\ HasLLMTimeout(bg_agent)
           => bg_clock < LLMTimeoutOf(bg_agent)
    /\ bg_clock' = bg_clock + 1
    /\ UNCHANGED <<bg_agent, bg_pc, bg_cached>>
    /\ UNCHANGED restOfBudget

\* The LLM answers: the agent builds its result from the answer.
BudgetAnswer ==
    /\ bg_pc = "waiting"
    /\ bg_pc' = "answered"
    /\ bg_cached' = AgentCaches(bg_agent)
    /\ UNCHANGED <<bg_agent, bg_clock>>
    /\ UNCHANGED restOfBudget

\* The agent's own wait_for expires: the agent builds its rule-based
\* result and stores it where it caches.
AgentTimeout ==
    /\ bg_pc = "waiting"
    /\ LoopRuns(bg_agent)
    /\ HasLLMTimeout(bg_agent)
    /\ bg_clock = LLMTimeoutOf(bg_agent)
    /\ bg_pc' = "fallback"
    /\ bg_cached' = AgentCaches(bg_agent)
    /\ UNCHANGED <<bg_agent, bg_clock>>
    /\ UNCHANGED restOfBudget

\* The orchestrator's wait_for expires: it cancels the agent task, whose
\* except branches never run, and records success False with a timeout
\* error.
TaskTimeout ==
    /\ bg_pc = "waiting"
    /\ LoopRuns(bg_agent)
    /\ bg_clock = TaskTimeoutOf(bg_agent)
    /\ bg_pc' = "cut_off"
    /\ UNCHANGED <<bg_agent, bg_clock, bg_cached>>
    /\ UNCHANGED restOfBudget

InitBudget == OrchInit /\ ReviewInit({1}) /\ OthersIdle

NextBudget ==
    \/ \E agent \in BudgetAgents : BudgetStart(agent)
    \/ BudgetTick
    \/ BudgetAnswer
    \/ AgentTimeout
    \/ TaskTimeout

SpecBudget == InitBudget /\ [][NextBudget]_vars

\* ------------------------------------ the comparison cache, by reference
\* A dict is modelled by the set of its keys; a product dict of the result
\* carries value_score once determine_winners has run.
CompareFields ==
    {"success", "products", "products.value_score", "differences", "winners",
     "comparison_output", "ai_analysis", "comparison_style"}

\* SimpleCache.get: the entry of the key if it has not expired. The value
\* returned is the stored reference, not a copy.
AliasFresh(k) ==
    /\ al_cache[k].ref # 0
    /\ Fresh(al_clock, al_cache[k].timestamp, CompareTTL)

\* compare_products, up to its return: on a fresh entry it returns the
\* cached reference; otherwise it builds the result dict (determine_winners
\* has set value_score on the products by then), passes it to
\* comparison_cache.set and returns the same dict.
AliasResultRef(k) == IF AliasFresh(k) THEN al_cache[k].ref ELSE Len(al_heap) + 1

AliasHeapAfterCompare(k) ==
    IF AliasFresh(k) THEN al_heap ELSE Append(al_heap, CompareFields)

AliasCompare(k) ==
    /\ al_requests < MaxRequests
    /\ al_requests' = al_requests + 1
    /\ IF AliasFresh(k)
       THEN /\ al_got' = [key |-> k, value |-> al_heap[al_cache[k].ref]]
            /\ UNCHANGED <<al_cache, al_stored>>
       ELSE /\ al_cache' = [al_cache EXCEPT
                                ![k] = [ref |-> Len(al_heap) + 1,
                                        timestamp |-> al_clock]]
            /\ al_stored' = [al_stored EXCEPT ![k] = CompareFields]
            /\ UNCHANGED al_got
    /\ UNCHANGED <<al_clock, al_waits>>

\* A route of routes/comparisons.py calls compare_products and serialises
\* what it returns.
RouteCompare(k) ==
    /\ AliasCompare(k)
    /\ al_heap' = AliasHeapAfterCompare(k)
    /\ UNCHANGED restOfAlias

\* OrchestratorAgent._compare_products: compare_products, then
\* comparison_result['frontend_table'] = table_data on the dict it got.
OrchestratorCompare(k) ==
    /\ AliasCompare(k)
    /\ al_heap' = [AliasHeapAfterCompare(k) EXCEPT
                      ![AliasResultRef(k)] = @ \cup {"frontend_table"}]
    /\ UNCHANGED restOfAlias

\* Time passes between two requests.
AliasWait(step) ==
    /\ al_waits < MaxClockSteps
    /\ al_waits' = al_waits + 1
    /\ al_clock' = al_clock + step
    /\ UNCHANGED <<al_heap, al_cache, al_stored, al_got, al_requests>>
    /\ UNCHANGED restOfAlias

InitAlias == OrchInit /\ ReviewInit({1}) /\ OthersIdle

NextAlias ==
    \/ \E k \in AliasKeys : RouteCompare(k)
    \/ \E k \in AliasKeys : OrchestratorCompare(k)
    \/ \E step \in {1, CompareTTL} : AliasWait(step)

SpecAlias == InitAlias /\ [][NextAlias]_vars

\* ------------------------------------------------------------ properties
Returned == pc = "done"
Succeeded == pc = "done" /\ response.success

\* C1: whenever retrieval returned at least one product, the call ends by
\* returning a response with success=true that lists the retrieved
\* products, whatever the four analysis tasks did.
C1_SuccessWhenProductsFound ==
    (pc \in {"done", "raised"} /\ products # <<>>) =>
        /\ Succeeded
        /\ Len(response.products) = Len(products)
        /\ \A i \in 1..Len(products) : response.products[i].id = products[i]

\* C2: when the 120 s ceiling fires with tasks unfinished, no exception
\* reaches the caller: the call returns an assembled success response.
C2_CeilingReturnsPartialResults ==
    ceiling_fired => Succeeded

\* C3: a call that ran past its per-task timeout leaves a success=false
\* timeout record in its own slot, every other slot holds the record of its
\* own call, and the request is assembled.
C3_TimeoutFillsOwnSlot ==
    Succeeded =>
        /\ \A i \in 1..Len(products) :
              /\ review_results[products[i]] =
                     SlotRecord(products[i], review_calls[i])
              /\ price_results[products[i]] =
                     SlotRecord(products[i], price_calls[i])
        /\ buyplan_late =>
              /\ ~buyplan_result.success
              /\ buyplan_result.error = "Buy plan timeout"

\* C4: the timers fire at their deadlines whatever a sibling task is doing:
\* past a task's deadline the task has finished, and the fan-in does not
\* outlive the ceiling.
C4_DeadlinesHold ==
    pc = "fanin" =>
        /\ clock > BuyPlanTimeout => buyplan_task = "done"
        /\ clock > PriceTimeout => price_task = "done"
        /\ clock > ReviewTimeout => review_task = "done"
        /\ clock > CompareTimeout => comparison_task = "done"
        /\ clock <= GlobalTimeout

\* C5: a successful response lists the retrieved products in the order of
\* the ranker, rank i being the i-th of them.
C5_ProductOrderPreserved ==
    Succeeded =>
        /\ Len(response.products) = Len(products)
        /\ \A i \in 1..Len(response.products) :
              /\ response.products[i].id = products[i]
              /\ response.products[i].rank = i

C5_Witness ==
    /\ Succeeded
    /\ Len(products) >= 2
    /\ products[1] > products[2]
    /\ \E i \in 1..Len(products) : review_calls[i] = "timeout"
    /\ \E i \in 1..Len(products) : price_calls[i] = "fail"

\* C6: the review and price blocks of a product carry the outcome of the
\* calls made for that product's own ID.
C6_AnalysisAttachedById ==
    Succeeded =>
        \A i \in 1..Len(response.products) :
            LET p == response.products[i]
                k == LastIndex(products, p.id)
            IN /\ p.review_analysis.src = p.id
               /\ p.price_tracking.src = p.id
               /\ p.review_analysis.available = (review_calls[k] = "ok")
               /\ p.price_tracking.available = (price_calls[k] = "ok")

C6_Witness ==
    /\ Succeeded
    /\ Len(products) >= 2
    /\ review_calls[1] = "ok" /\ review_calls[2] = "timeout"
    /\ price_calls[1] = "fail" /\ price_calls[2] = "ok"

\* C7: with no product retrieved the call returns success=false with an
\* error and the echoed query and no analysis task is created; tasks exist
\* only after a non-empty retrieval, and a response is assembled only after
\* all four tasks have finished.
C7_RetrievalThenAnalysisThenAssembly ==
    /\ (Returned /\ products = <<>>) =>
          /\ ~response.success
          /\ response.error # ""
          /\ response.query = query
          /\ \A i \in 1..4 : AllTasks[i] = "none"
    /\ (\E i \in 1..4 : AllTasks[i] # "none") =>
          (pc # "start" /\ products # <<>>)
    /\ Succeeded => AllDone

C7_Witness ==
    /\ Returned
    /\ products = <<>>
    /\ response.error = "No products found matching your query"

\* C8: with exactly one product retrieved the comparison block of the
\* successful response is null.
C8_SingleProductOmitsComparison ==
    (Succeeded /\ Len(products) = 1) => response.comparison.isNone

\* C9: in a successful response the block of an agent that failed or timed
\* out is present with available=false: the comparison block when at least
\* two products were retrieved, and the buy_plan block.
C9_FailedSectionsExplicit ==
    Succeeded =>
        /\ (Len(products) >= 2 /\ ~comparison_result.success) =>
              (~response.comparison.isNone /\ ~response.comparison.available)
        /\ ~buyplan_result.success =>
              (~response.buy_plan.isNone /\ ~response.buy_plan.available)

\* The sentiment the rule assigns to a mean rating sum / total.
RuleSentiment(sum, total) ==
    IF sum >= 4 * total THEN "Positive"
    ELSE IF sum >= 3 * total THEN "Neutral" ELSE "Negative"

\* C10: for a product with reviews, a call whose LLM call timed out or
\* raised returns the rule-based result (success=true, sentiment by the
\* mean rating) and leaves it in the review cache, where a lookup made
\* within the TTL of the store finds it.
C10_FallbackOnTimeoutAndError ==
    (ra_pc = "idle" /\ ra_outcome \in {"llm_timeout", "llm_error"}) =>
        /\ ra_total >= 1
        /\ ra_result.success
        /\ ra_result.sentiment = RuleSentiment(ra_sum, ra_total)
        /\ CacheKey(ra_product) \in DOMAIN review_cache
        /\ review_cache[CacheKey(ra_product)].value = ra_result
        /\ LET g == CacheGet(review_cache, CacheKey(ra_product), now,
                            ReviewTTL)
           IN now - review_cache[CacheKey(ra_product)].timestamp < ReviewTTL
                => g.hit /\ g.value = ra_result

\* C11: a call that read the reviews of its product and found none returns
\* success=false with the message "No reviews found for this product",
\* does not go on to the LLM call, and leaves no entry for the product in
\* the review cache.
C11_NoReviewsNoLLMNoCache ==
    ra_outcome = "no_reviews" =>
        /\ ra_pc = "idle"
        /\ ~ra_result.success
        /\ ra_result.message = "No reviews found for this product"
        /\ ra_result.product_id = ra_product
        /\ CacheKey(ra_product) \notin DOMAIN review_cache

\* A no-review return made after an earlier entry of the cache has expired.
C11_Witness ==
    /\ ra_outcome = "no_reviews"
    /\ ra_pc = "idle"
    /\ now >= ReviewTTL

\* A get that has returned, with the thread that made it.
GetReturned(t) ==
    cache_threads[t].pc = "idle" /\ cache_threads[t].op = "get"
    /\ ~cache_threads[t].raised

\* C12: a get made less than the TTL after the last set of its key, with no
\* remove or clear in between, returns the value of that set (so a set on
\* an existing key replaces the value and restarts the TTL); a get made at
\* the TTL or later, or with no such set, returns None and leaves no entry
\* under the key.
C12_CacheTTL ==
    \A t \in Threads :
        GetReturned(t) =>
            /\ cache_threads[t].ret = cache_threads[t].expect
            /\ cache_threads[t].ret.isNone => cache_threads[t].gone

\* A get that found the entry of an earlier set expired and removed it.
C12_Witness ==
    \E t \in Threads :
        /\ GetReturned(t)
        /\ cache_threads[t].ret.isNone
        /\ cache_threads[t].key \in DOMAIN cache_last
        /\ now - cache_last[cache_threads[t].key].timestamp >= ReviewTTL
        /\ cache_threads[t].key \notin DOMAIN review_cache

\* C13: under every interleaving of the threads at most one call is inside
\* the cache at a time, no call raises, and a get that returns a value
\* returns the unexpired value of the last set of its key.
C13_CacheThreadSafe ==
    /\ \A t \in Threads : ~cache_threads[t].raised
    /\ \A t, u \in Threads :
          (cache_threads[t].pc # "idle" /\ cache_threads[u].pc # "idle")
             => t = u
    /\ \A t \in Threads :
          (cache_threads[t].pc # "idle") => cache_lock = t
    /\ \A t \in Threads :
          (GetReturned(t) /\ ~cache_threads[t].ret.isNone) =>
              cache_threads[t].ret = cache_threads[t].expect

\* One thread has got a value while another is inside a call on the same
\* key.
C13_Witness ==
    \E t, u \in Threads :
        /\ t # u
        /\ GetReturned(t)
        /\ ~cache_threads[t].ret.isNone
        /\ cache_threads[u].pc \in {"get_del", "remove_del", "set"}
        /\ cache_threads[u].key = cache_threads[t].key

\* C14: the second of two calls with the same input over warm caches
\* returns the same analysis blocks as the first, for every product.
C14_WarmRepeatIdentical ==
    rp_calls = 2 => rp_first = rp_second

\* C15: every successful compare_products call, computed or served from
\* the cache, returns the product list, differences and winners of the
\* first computation for the same sorted IDs and style, whatever the order
\* of its ID list.
C15_PermutationInvariant ==
    cp_outcome \in {"computed", "hit"} =>
        /\ cp_result.success
        /\ cp_key \in DOMAIN cp_first
        /\ CompareCore(cp_result) = cp_first[cp_key].core

\* A comparison computed afresh, after the entry of its key has expired,
\* for a list in another order than the list of the first computation.
C15_Witness ==
    /\ cp_outcome = "computed"
    /\ cp_permuted
    /\ cp_now >= CompareTTL
    /\ Len(cp_result.products) >= 2

\* C16: a call with fewer than 2 IDs, more than MaxCompare IDs or an ID
\* that is not in the catalog returns success=false with an error text,
\* without reaching the LLM call, and leaves the comparison cache as it
\* found it.
C16_InvalidInputRejected ==
    cp_class \in {"too_few", "too_many", "absent"} =>
        /\ cp_pc = "idle"
        /\ cp_outcome \in {"too_few", "too_many", "not_found"}
        /\ ~cp_result.success
        /\ cp_result.error # ""
        /\ cp_cache = cp_before

\* A list of MaxCompare + 1 IDs rejected by the second call, while the
\* cache holds the result of the first.
C16_Witness ==
    /\ cp_class = "too_many"
    /\ cp_outcome = "too_many"
    /\ cp_calls >= 2
    /\ cp_cache # <<>>

\* C17: whatever the intent LLM call does (an exception, a text that is no
\* JSON, JSON in a code fence, an object with missing fields, JSON whose
\* top-level value is no object), _parse_search_intent returns a usable
\* intent, the fallback one when the call failed or its output was malformed,
\* and search_products does not fail because of the intent.
C17_IntentNeverFails ==
    sr_pc \notin {"start", "intent"} =>
        /\ sr_intent.type = "dict"
        /\ sr_llm \in {"exception", "malformed", "non_object"} =>
              sr_intent = FallbackIntent
        /\ ~(sr_pc = "done" /\ ~sr_result.success
              /\ sr_result.error = "intent has no attribute get")

\* C18: the intent parsing is over within its latency budget of 2 seconds:
\* search_products is never still inside the intent LLM call after it.
C18_IntentWithinBudget ==
    sr_pc = "intent" => sr_elapsed <= 2

\* C19: when the vector index fails, search_products does not fail for that
\* reason: it succeeds on the predicate leg, or fails because the catalog
\* failed.
C19_VectorFailureTolerated ==
    (sr_pc = "done" /\ sr_vector = "fail") =>
        \/ sr_result.success
        \/ sr_result.error = "catalog"

\* The product IDs of a list of result dicts.
Ids(results) == [i \in 1..Len(results) |-> results[i].product_id]

\* The fused score of a product as the two legs define it, in thousandths.
FusedScore(id) ==
    (IF \E i \in 1..Len(sr_semantic) : sr_semantic[i].product_id = id
     THEN LET i == CHOOSE k \in 1..Len(sr_semantic) :
                       sr_semantic[k].product_id = id
          IN (sr_semantic[i].similarity_score * SemanticWeight) \div 100
     ELSE 0)
    + (IF id \in Range(sr_traditional) THEN TraditionalWeight ELSE 0)

\* The ranking of a successful search has each product of the two legs at
\* most once, with the weighted sum as its score, by decreasing score, cut
\* to the limit, and is the ranking of one leg when the other is empty.
FusionShape ==
    (sr_pc = "done" /\ sr_result.success) =>
        LET ranked == sr_result.products
            union == Range(Ids(sr_semantic)) \cup Range(sr_traditional)
        IN /\ \A i, j \in 1..Len(ranked) :
                 i # j => ranked[i].product_id # ranked[j].product_id
           /\ \A i \in 1..Len(ranked) :
                 /\ ranked[i].product_id \in union
                 /\ ranked[i].final_score = FusedScore(ranked[i].product_id)
           /\ Len(ranked) = Min(sr_limit, Cardinality(union))
           /\ \A i \in 1..Len(ranked) - 1 :
                 ranked[i].final_score >= ranked[i + 1].final_score
           /\ \A id \in union \ Range(Ids(ranked)) :
                 \A i \in 1..Len(ranked) :
                    ranked[i].final_score >= FusedScore(id)
           /\ sr_semantic = <<>> => Ids(ranked) = Take(sr_traditional, sr_limit)
           /\ sr_traditional = <<>> =>
                 Ids(ranked) = Take(Ids(sr_semantic), sr_limit)

\* Every fused score of a successful search lies in [0, 1].
FusionRange ==
    (sr_pc = "done" /\ sr_result.success) =>
        \A i \in 1..Len(sr_result.products) :
            /\ sr_result.products[i].final_score >= 0
            /\ sr_result.products[i].final_score
                  <= SemanticWeight + TraditionalWeight

\* C20: the fused ranking has each product of the union of the two legs at
\* most once, with score 0.7 x semantic score plus 0.3 for a predicate
\* match, every score in [0, 1], sorted by decreasing score, of at most
\* limit entries, and equal to the ranking of one leg when the other leg is
\* empty.
C20_FusionRanking == FusionShape /\ FusionRange

\* C21: a product without price history still gets a price_tracking block
\* whose chart_data has 30 labels and 30 prices around the current price,
\* and the block tells the synthetic series from a real one: history_days
\* is 0 while the chart has 30 points.
C21_MockChartDistinguishable ==
    (pt_pc = "done" /\ pt_history = <<>>) =>
        /\ pt_block.chart_data.labels = 30
        /\ Len(pt_block.chart_data.data) = 30
        /\ \A i \in 1..Len(pt_block.chart_data.data) :
              /\ pt_block.chart_data.data[i] * 100 >= pt_current * 95
              /\ pt_block.chart_data.data[i] * 100 <= pt_current * 105
        /\ pt_block.history_days = 0

\* The claim without the history_days part.
MockChartPresent ==
    (pt_pc = "done" /\ pt_history = <<>>) =>
        /\ pt_block.chart_data.labels = 30
        /\ Len(pt_block.chart_data.data) = 30
        /\ \A i \in 1..Len(pt_block.chart_data.data) :
              /\ pt_block.chart_data.data[i] * 100 >= pt_current * 95
              /\ pt_block.chart_data.data[i] * 100 <= pt_current * 105

\* The sum of the rows from a to b of the price history.
HistorySum(a, b) == SumSeq(SubSeq(pt_history, a, b))

\* C27: for a product with price history, the recommendation is buy_now
\* when the current price is at most 1.05 x the minimum, else wait when the
\* trend is decreasing or the current price is at least the average, else
\* good_time; the current price is the price of the product record; the
\* trend is insufficient_data below 14 rows, else decreasing, increasing or
\* stable by the mean of the 7 newest rows against the mean of rows 8-14 at
\* the thresholds 0.95 and 1.05.
C27_PriceRecommendation ==
    (pt_pc # "start" /\ pt_history # <<>> /\ pt_analysis.success) =>
        LET t == pt_analysis.price_data
            n == Len(pt_history)
        IN /\ t.current_price = pt_current
           /\ t.trend = "insufficient_data" <=> n < 14
           /\ n >= 14 =>
                /\ t.trend = "decreasing" <=>
                      HistorySum(1, 7) * 100 < HistorySum(8, 14) * 95
                /\ t.trend = "increasing" <=>
                      HistorySum(1, 7) * 100 > HistorySum(8, 14) * 105
                /\ t.trend \in {"decreasing", "increasing", "stable"}
           /\ t.recommendation = "buy_now" <=>
                 \A i \in 1..n : pt_current * 100 <= pt_history[i] * 105
           /\ t.recommendation = "wait" <=>
                 /\ \E i \in 1..n : pt_current * 100 > pt_history[i] * 105
                 /\ \/ t.trend = "decreasing"
                    \/ pt_current * n >= HistorySum(1, n)
           /\ t.recommendation \in {"buy_now", "wait", "good_time"}
           /\ pt_analysis.recommendation = t.recommendation

\* A history of two weeks with a rising price and a current price between
\* 1.05 x the minimum and the average: good_time; and one where the current
\* price is exactly 1.05 x the minimum: buy_now.
C27_Witness ==
    /\ pt_pc = "done"
    /\ Len(pt_history) >= 14
    /\ pt_analysis.success
    /\ pt_analysis.price_data.trend = "increasing"
    /\ pt_analysis.price_data.recommendation = "good_time"

\* The discount the claim defines, in tenths of a percent: the rounded
\* (MRP - price) / MRP x 100 when MRP > price, else 0.
ClaimedDiscount ==
    IF dc_mrp # 0 /\ dc_mrp > dc_price
    THEN RoundDiv((dc_mrp - dc_price) * 1000, dc_mrp)
    ELSE 0

\* The discount of the product search returns is the claimed one.
SearchDiscountRight ==
    dc_pc # "start" =>
        /\ dc_product["discount_percent"] = ClaimedDiscount
        /\ dc_product["discount_percent"] \in 0..1000

\* The discount of the pricing block is the claimed one.
PricingDiscountRight ==
    dc_pc = "done" =>
        /\ dc_pricing["discount_percent"] = ClaimedDiscount
        /\ dc_pricing["discount_percent"] \in 0..1000

\* C22: on every product search returns and in every pricing block of an
\* orchestrated response, discount_percent lies in [0, 100] and is the
\* rounded (MRP - price) / MRP x 100 when MRP > price, and 0 otherwise.
C22_DiscountPercent == SearchDiscountRight /\ PricingDiscountRight

\* Every regular-EMI schedule pays at least the price.
RegularEmiCoversPrice ==
    bp_pc = "done" =>
        \A i \in 1..Len(bp_plan.regular_emi_plans) :
            LET plan == bp_plan.regular_emi_plans[i]
            IN plan.emi_per_month * plan.tenure_months >= bp_price * 100

\* Every no-cost-EMI schedule pays the price exactly, without interest.
NoCostEmiExact ==
    bp_pc = "done" =>
        \A i \in 1..Len(bp_plan.no_cost_emi_plans) :
            LET plan == bp_plan.no_cost_emi_plans[i]
            IN /\ plan.emi_per_month * plan.tenure_months = bp_price * 100
               /\ plan.total_interest = 0

\* C23: for every price and tenure, a regular-EMI schedule satisfies
\* emi_per_month x tenure_months >= price, and a no-cost-EMI schedule
\* satisfies emi_per_month x tenure_months = price exactly, with
\* total_interest = 0.
C23_EmiSchedules == RegularEmiCoversPrice /\ NoCostEmiExact

\* The payment options of a kind in the plan.
OptionsOf(kind) ==
    {i \in 1..Len(bp_plan.payment_options) :
        bp_plan.payment_options[i].kind = kind}

\* best_instant_savings and best_cashback are the options of their kind
\* with the most savings, and None only when there is no such option.
BestSavingsRight ==
    bp_pc = "done" =>
        /\ \A kind \in {"instant", "cashback"} :
              LET best == IF kind = "instant"
                          THEN bp_plan.best_instant_savings
                          ELSE bp_plan.best_cashback
              IN IF OptionsOf(kind) = {}
                 THEN best = NoOption
                 ELSE /\ \E i \in OptionsOf(kind) :
                            bp_plan.payment_options[i] = best
                      /\ \A i \in OptionsOf(kind) :
                            bp_plan.payment_options[i].total_savings
                               <= best.total_savings

\* best_emi is the EMI option with the lowest monthly payment, or the first
\* no-cost-EMI schedule when there is no EMI option.
BestEmiRight ==
    bp_pc = "done" =>
        IF OptionsOf("emi") # {}
        THEN /\ \E i \in OptionsOf("emi") :
                   bp_plan.payment_options[i] = bp_plan.best_emi
             /\ \A i \in OptionsOf("emi") :
                   bp_plan.payment_options[i].emi_per_month
                      >= bp_plan.best_emi.emi_per_month
        ELSE bp_plan.no_cost_emi_plans # <<>> =>
                /\ bp_plan.best_emi # NoOption
                /\ bp_plan.best_emi.emi_per_month
                      = bp_plan.no_cost_emi_plans[1].emi_per_month
                /\ bp_plan.best_emi.tenure_months
                      = bp_plan.no_cost_emi_plans[1].tenure_months

\* C24: in a purchase plan best_emi is the EMI option of the offers with
\* the lowest monthly payment, or the first no-cost-EMI schedule when no
\* offer gives an EMI option (so it is not None whenever there is a no-cost
\* schedule); best_instant_savings and best_cashback are the options of
\* their kind with the most savings, None only when there is none.
C24_BestOptions == BestEmiRight /\ BestSavingsRight

\* The trust score the claim defines, before the clamp, in thousandths of
\* the review count.
ClaimedTrust ==
    LET t == ts_stats.total_reviews
    IN 500 * t + 300 * ts_stats.verified_purchases
       + (IF 10 * ts_stats.five_star < 7 * t /\ 10 * ts_stats.one_star < 3 * t
          THEN 200 * t
          ELSE IF 10 * ts_stats.five_star > 9 * t THEN -(100 * t) ELSE 0)
       + (IF t > 50 THEN 100 * t ELSE IF t > 20 THEN 50 * t ELSE 0)

\* C25: every successful review analysis result, on the LLM path and on
\* the fallback path, has a trust_score in [0, 1] that is 0.5 + 0.3 x
\* verified ratio, +0.2 for a balanced distribution or -0.1 for more than
\* 90% five stars, +0.1 above 50 reviews or +0.05 above 20, clamped; the
\* computation divides by the review count, which is not zero.
C25_TrustScore ==
    ts_pc = "done" =>
        /\ ts_stats.total_reviews > 0
        /\ ts_score.den = 1000 * ts_stats.total_reviews
        /\ ts_score.num >= 0
        /\ ts_score.num <= ts_score.den
        /\ ts_score.num =
              (IF ClaimedTrust > ts_score.den THEN ts_score.den
               ELSE IF ClaimedTrust < 0 THEN 0 ELSE ClaimedTrust)

\* A fallback result whose score the clamp cut to 1.
C25_Witness ==
    /\ ts_pc = "done"
    /\ ts_path = "fallback"
    /\ ClaimedTrust > ts_score.den
    /\ ts_score.num = ts_score.den

\* The result has one of the three sentiments, one to three pros and at
\* least one con.
ParsedShape ==
    pr_pc = "done" =>
        /\ pr_parsed.sentiment \in {"Positive", "Neutral", "Negative"}
        /\ Len(pr_parsed.pros) \in 1..3
        /\ Len(pr_parsed.cons) >= 1

\* C26: every successful review analysis result, for any LLM text and on
\* the fallback path, has its sentiment in {Positive, Neutral, Negative},
\* at most 3 pros and at most 2 cons, and pros and cons are not empty: they
\* are synthesized when the section is missing from the LLM text.
C26_ParsedAnalysis ==
    ParsedShape /\ (pr_pc = "done" => Len(pr_parsed.cons) <= 2)

\* The LLM calls an agent still awaits, and the worker threads still alive.
AwaitedCalls == {c \in 1..MaxCalls : wk_call[c] = "awaited"}
LiveWorkers == {c \in 1..MaxCalls : wk_thread[c] = "running"}

\* A call whose answer arrived while it was awaited leaves nothing behind:
\* its thread has ended and its executor is shut down.
AnsweredCallReleased ==
    \A c \in 1..MaxCalls :
        wk_call[c] = "answered"
            => wk_thread[c] = "exited" /\ wk_executor[c] = "shutdown"

\* C28: a timed-out LLM call releases its worker thread and its executor,
\* so the number of live LLM worker threads never exceeds the number of LLM
\* calls still awaited, and no executor of a call that is over stays open.
C28_WorkersReleased ==
    /\ Cardinality(LiveWorkers) <= Cardinality(AwaitedCalls)
    /\ \A c \in 1..MaxCalls :
           wk_call[c] \in {"answered", "fallback"}
               => wk_executor[c] = "shutdown"

\* The agent task is still inside the time the orchestrator gives it, and
\* the orchestrator has not cut it off; a fallback result is cached where
\* the agent caches.
WithinTaskTimeout(agent) ==
    bg_agent = agent =>
        /\ bg_pc # "cut_off"
        /\ bg_pc = "waiting" => bg_clock <= TaskTimeoutOf(agent)
        /\ bg_pc = "fallback" => bg_cached = AgentCaches(agent)

\* The price tracker and the comparator take their fallback before the
\* orchestrator's timeout.
PriceAndComparatorInTime ==
    WithinTaskTimeout("price") /\ WithinTaskTimeout("comparator")

\* The same for the review analyzer alone, and for the buy plan agent alone.
ReviewInTime == WithinTaskTimeout("review")
BuyPlanInTime == WithinTaskTimeout("buyplan")

\* C29: the LLM timeout of each agent expires before the orchestrator's
\* timeout on that agent's task, so an LLM call that does not return ends
\* in the agent's fallback result and never in the orchestrator cutting
\* the task off or waiting past its timeout.
C29_AgentTimeoutFirst ==
    \A agent \in BudgetAgents : WithinTaskTimeout(agent)

\* determine_winners adds value_score before the result is stored: the
\* value passed to set already carries it.
ValueScoreBeforeSet ==
    \A k \in AliasKeys :
        al_cache[k].ref # 0 => "products.value_score" \in al_stored[k]

\* C30: a value stored in a shared cache is not modified after it is
\* stored: a get within the TTL returns a value equal to the one passed to
\* the last set of that key, whatever the requests in between did with the
\* results they were given.
C30_CachedValueUnchanged ==
    al_got # NoGet => al_got.value = al_stored[al_got.key]

====
